---- MODULE Spec2Model ----
(***************************************************************************)
(* The virtual-memory core of the kernel (kernel/vm.c): the physical page  *)
(* allocator (kinit, freerange, kfree, kalloc), the Sv39 page-table walker *)
(* (walk, walkaddr, mappages, uvmunmap, freewalk) and the address-space    *)
(* operations built on them (uvmcreate, uvmalloc, uvmdealloc, uvmfree,     *)
(* uvmcopy, uvmclear, proc_kpt_init, setup_uvmkvm).                        *)
(*                                                                         *)
(* Addresses and sizes are counted in units of 256 bytes, so that the      *)
(* largest address of the program, MAXVA = 2^38 bytes, is 2^30 units and   *)
(* fits the 32-bit integers of the model checker.  A page is 4096 bytes =  *)
(* 16 units; page numbers, table indices and page-table entries have their *)
(* real values.  A size that is not page-aligned is a multiple of 256      *)
(* bytes here.                                                             *)
(***************************************************************************)
EXTENDS Integers, Sequences, FiniteSets, TLC

VARIABLES
  mem,              \* physical memory: managed frame -> its contents
  freelist,         \* kmem.freelist: the head of the list of free frames
  panicked,         \* "" or the message of the panic() that halted the kernel
  log,              \* the kalloc/kfree calls of the last operation, in order
  kernel_pagetable, \* the global kernel page table (0 before kvminit)
  p_pagetable,      \* p->pagetable of the process (0: none)
  p_sz,             \* p->sz of the process
  p_kpagetable,     \* the process's private kernel (shadow) page table (0: none)
  np_pagetable,     \* np->pagetable of the child being forked (0: none)
  np_sz,            \* np->sz of the child
  nprocs,           \* the address spaces created so far
  last,             \* the last operation: its name, arguments, result and
                    \* what the state was before it
  lock,             \* kmem.lock: 0 or the thread that holds it
  pc,               \* allocator threads: where each one is in kalloc/kfree
  local,            \* allocator threads: the r / pa of the call in progress
  held              \* allocator threads: the frames each one owns

vars == <<mem, freelist, panicked, log, kernel_pagetable, p_pagetable, p_sz,
          p_kpagetable, np_pagetable, np_sz, nprocs, last, lock, pc, local, held>>

(***************************************************************************)
(* Bounds of the model.                                                    *)
(***************************************************************************)
NFrames == 30       \* frames between end and PHYSTOP (the real kernel: 32,000)
MaxPages == 2       \* the largest process size tried, in pages
MaxFree == 5        \* the most frames left free when the process starts
MaxProcs == 1       \* the address spaces created in one run
NCPU == 2           \* the threads that call the allocator at once
MaxPool == 2        \* the most frames the threads share
PoolFrames == 16    \* the frames of the range the allocator is given by itself
MaxHeld == 3        \* the most frames a caller holds when it frees one

(***************************************************************************)
(* riscv.h and memlayout.h (not among the source files): the Sv39 layout.  *)
(***************************************************************************)
AddrUnit == 2^8
PGSIZE == 4096 \div AddrUnit
PTE_V == 1
PTE_R == 2
PTE_W == 4
PTE_X == 8
PTE_U == 16
NPTE == 512
MAXVA == PGSIZE * (2^26)
PGROUNDUP(a) == ((a + PGSIZE - 1) \div PGSIZE) * PGSIZE
PGROUNDDOWN(a) == (a \div PGSIZE) * PGSIZE
PA2PTE(pa) == (pa \div PGSIZE) * 1024
PTE2PA(pte) == (pte \div 1024) * PGSIZE
PTE_FLAGS(pte) == pte % 1024
PX(level, va) == (va \div (PGSIZE * (NPTE ^ level))) % NPTE

UART0 == (2^28) \div AddrUnit
VIRTIO0 == UART0 + PGSIZE
CLINT == (2^25) \div AddrUnit
PLIC == (3 * (2^26)) \div AddrUnit
KERNBASE == 8 * ((2^28) \div AddrUnit)
TRAMPOLINE == MAXVA - PGSIZE
\* kernel.ld: two pages of text (the second is the trampoline), one of data.
trampoline == KERNBASE + PGSIZE
etext == KERNBASE + 2 * PGSIZE
end == etext + PGSIZE
PHYSTOP == end + NFrames * PGSIZE

Frames == {end + i * PGSIZE : i \in 0 .. NFrames - 1}

(***************************************************************************)
(* Bit operations on entries and permissions (C's |, & and ~).             *)
(***************************************************************************)
RECURSIVE BitOr(_, _)
BitOr(a, b) ==
  IF a = 0 THEN b
  ELSE IF b = 0 THEN a
  ELSE (IF a % 2 = 1 \/ b % 2 = 1 THEN 1 ELSE 0) + 2 * BitOr(a \div 2, b \div 2)

RECURSIVE BitAnd(_, _)
BitAnd(a, b) ==
  IF a = 0 \/ b = 0 THEN 0
  ELSE (IF a % 2 = 1 /\ b % 2 = 1 THEN 1 ELSE 0) + 2 * BitAnd(a \div 2, b \div 2)

\* a & ~b
BitClear(a, b) == a - BitAnd(a, b)

(***************************************************************************)
(* Physical memory.  A frame's contents are a fill byte (what memset left) *)
(* and the 64-bit words written over it since: word i of a page table is   *)
(* its entry i, word 0 of a free frame is its struct run's next.           *)
(***************************************************************************)
NoWords == [i \in {} |-> 0]

Filled(b) == [fill |-> b, ent |-> NoWords]

\* The low 32 bits of a word of a frame filled with byte b.
FillWord(b) == b * 16843009

Word(c, i) == IF i \in DOMAIN c.ent THEN c.ent[i] ELSE FillWord(c.fill)

SetWord(c, i, v) ==
  IF v = FillWord(c.fill)
  THEN [c EXCEPT !.ent = [j \in (DOMAIN c.ent) \ {i} |-> c.ent[j]]]
  ELSE IF i \in DOMAIN c.ent THEN [c EXCEPT !.ent[i] = v]
  ELSE [c EXCEPT !.ent = (i :> v) @@ c.ent]

\* A pte_t *: the table frame and the index of the entry.  NULL is 0.
NULL == [tab |-> 0, idx |-> 0]
PteAddr(tab, i) == [tab |-> tab, idx |-> i]

\* *pte and *pte = v
Load(m, p) == IF p.tab \in Frames THEN Word(m.mem[p.tab], p.idx) ELSE 0
Store(m, p, v) ==
  IF p.tab \in Frames
  THEN [m EXCEPT !.mem[p.tab] = SetWord(@, p.idx, v)]
  ELSE m

\* memset(pa, b, PGSIZE) and memmove(dst, src, PGSIZE)
memset(m, pa, b) == [m EXCEPT !.mem[pa] = Filled(b)]
memmove(m, dst, src) == [m EXCEPT !.mem[dst] = m.mem[src]]

Panic(m, msg) == IF m.panic = "" THEN [m EXCEPT !.panic = msg] ELSE m

(***************************************************************************)
(* The physical page allocator, as one thread runs it.                     *)
(***************************************************************************)
\* kfree linking the frame behind the head of a list that has one.
kfree_second(m, pa) ==
  IF m.panic # "" THEN m
  ELSE IF pa % PGSIZE # 0 \/ pa < end \/ pa >= PHYSTOP THEN Panic(m, "kfree")
  ELSE IF m.freelist = 0
  THEN [m EXCEPT !.mem[pa] = SetWord(Filled(1), 0, 0), !.freelist = pa,
                 !.log = Append(@, <<"kfree", pa>>)]
  ELSE [m EXCEPT !.mem[pa] = SetWord(Filled(1), 0, Word(m.mem[m.freelist], 0)),
                 !.mem[m.freelist] = SetWord(@, 0, pa),
                 !.log = Append(@, <<"kfree", pa>>)]

kfree(m, pa) ==
  IF m.panic # "" THEN m
  ELSE IF pa % PGSIZE # 0 \/ pa < end \/ pa >= PHYSTOP THEN Panic(m, "kfree")
  ELSE [m EXCEPT !.mem[pa] = SetWord(Filled(1), 0, m.freelist),
                 !.freelist = pa,
                 !.log = Append(@, <<"kfree", pa>>)]

kalloc(m) ==
  LET r == m.freelist IN
  IF m.panic # "" THEN [m |-> m, r |-> 0]
  ELSE IF r = 0 THEN [m |-> [m EXCEPT !.log = Append(@, <<"kalloc", 0>>)], r |-> 0]
  ELSE [m |-> [m EXCEPT !.freelist = Word(m.mem[r], 0),
                        !.mem[r] = Filled(5),
                        !.log = Append(@, <<"kalloc", r>>)],
        r |-> r]

\* freerange taking every frame that begins before pa_end.
RECURSIVE freerangeFrom_over(_, _, _)
freerangeFrom_over(m, p, pa_end) ==
  IF p < pa_end THEN freerangeFrom_over(kfree(m, p), p + PGSIZE, pa_end)
  ELSE m

RECURSIVE freerangeFrom(_, _, _)
freerangeFrom(m, p, pa_end) ==
  IF p + PGSIZE <= pa_end THEN freerangeFrom(kfree(m, p), p + PGSIZE, pa_end)
  ELSE m

freerange(m, pa_start, pa_end) == freerangeFrom(m, PGROUNDUP(pa_start), pa_end)

\* Memory before kinit: nothing is known of it; kfree fills every frame.
PowerOn ==
  [mem |-> [f \in Frames |-> Filled(0)], freelist |-> 0, panic |-> "",
   log |-> <<>>]

kinit == freerange(PowerOn, end, PHYSTOP)

\* The frames on the free list, head first.
RECURSIVE FreeSeq(_, _, _)
FreeSeq(m, r, n) ==
  IF r = 0 \/ n = 0 \/ r \notin Frames THEN <<>>
  ELSE <<r>> \o FreeSeq(m, Word(m.mem[r], 0), n - 1)

FreeList(m) == FreeSeq(m, m.freelist, NFrames + 1)

SeqRange(s) == {s[i] : i \in 1 .. Len(s)}

FreeSet(m) == SeqRange(FreeList(m))

(***************************************************************************)
(* The page-table walker.  An operation takes the machine m (memory, free  *)
(* list, panic, log) and gives the machine after it, with its result.      *)
(* Once the kernel has panicked nothing runs any more.  Where the code     *)
(* holds a call's result in a local (pte = walk(..), mem = kalloc()), the  *)
(* rest of the function is an operator that takes the result.              *)
(***************************************************************************)
Halted(m) == m.panic # ""

HasFlag(pte, flag) == BitAnd(pte, flag) # 0

RECURSIVE walkLevel(_, _, _, _, _)

\* walk marking the table it installs readable, as a leaf is.
walkInstall_leaf(k, pte, va, alloc, level) ==
  IF k.r = 0 THEN [m |-> k.m, pte |-> NULL]
  ELSE walkLevel(Store(memset(k.m, k.r, 0), pte,
                       BitOr(PA2PTE(k.r), PTE_V + PTE_R)),
                 k.r, va, alloc, level - 1)

\* walk, after pagetable = (pde_t*)kalloc() gave k.
walkInstall(k, pte, va, alloc, level) ==
  IF k.r = 0 THEN [m |-> k.m, pte |-> NULL]
  ELSE walkLevel(Store(memset(k.m, k.r, 0), pte, BitOr(PA2PTE(k.r), PTE_V)),
                 k.r, va, alloc, level - 1)

\* The body of walk's loop at the entry pte of the table of this level.
walkEntry(m, pte, va, alloc, level) ==
  IF HasFlag(Load(m, pte), PTE_V)
  THEN walkLevel(m, PTE2PA(Load(m, pte)), va, alloc, level - 1)
  ELSE IF ~alloc THEN [m |-> m, pte |-> NULL]
  ELSE walkInstall(kalloc(m), pte, va, alloc, level)

walkLevel(m, pagetable, va, alloc, level) ==
  IF pagetable \notin Frames THEN [m |-> Panic(m, "kerneltrap"), pte |-> NULL]
  ELSE IF level = 0 THEN [m |-> m, pte |-> PteAddr(pagetable, PX(0, va))]
  ELSE walkEntry(m, PteAddr(pagetable, PX(level, va)), va, alloc, level)

walk(m, pagetable, va, alloc) ==
  IF Halted(m) THEN [m |-> m, pte |-> NULL]
  ELSE IF va >= MAXVA THEN [m |-> Panic(m, "walk"), pte |-> NULL]
  ELSE walkLevel(m, pagetable, va, alloc, 2)

\* walkaddr without its PTE_U test.
walkaddrOf_kernel(m, pte) ==
  IF pte = NULL THEN 0
  ELSE IF BitAnd(Load(m, pte), PTE_V) = 0 THEN 0
  ELSE PTE2PA(Load(m, pte))

\* walkaddr, after pte = walk(pagetable, va, 0).
walkaddrOf(m, pte) ==
  IF pte = NULL THEN 0
  ELSE IF BitAnd(Load(m, pte), PTE_V) = 0 THEN 0
  ELSE IF BitAnd(Load(m, pte), PTE_U) = 0 THEN 0
  ELSE PTE2PA(Load(m, pte))

walkaddr(m, pagetable, va) ==
  IF va >= MAXVA THEN 0
  ELSE walkaddrOf(m, walk(m, pagetable, va, FALSE).pte)

\* mappages without its remap test.
mappagesInstall_over(w, pa, perm) ==
  IF Halted(w.m) THEN [m |-> w.m, r |-> -1]
  ELSE IF w.pte = NULL THEN [m |-> w.m, r |-> -1]
  ELSE [m |-> Store(w.m, w.pte, BitOr(BitOr(PA2PTE(pa), perm), PTE_V)), r |-> 0]

\* mappages, after pte = walk(pagetable, a, 1) gave w: r = -1 when walk fails.
mappagesInstall(w, pa, perm) ==
  IF Halted(w.m) THEN [m |-> w.m, r |-> -1]
  ELSE IF w.pte = NULL THEN [m |-> w.m, r |-> -1]
  ELSE IF HasFlag(Load(w.m, w.pte), PTE_V) THEN [m |-> Panic(w.m, "remap"), r |-> -1]
  ELSE [m |-> Store(w.m, w.pte, BitOr(BitOr(PA2PTE(pa), perm), PTE_V)), r |-> 0]

\* One turn of the loop of mappages, at page a.
mappagesAt(m, pagetable, a, pa, perm) ==
  mappagesInstall(walk(m, pagetable, a, TRUE), pa, perm)

RECURSIVE mappagesFrom(_, _, _, _, _, _)

\* The turns after the first h, unless one of these failed or panicked.
mappagesRest(first, pagetable, a, h, n, pa, perm) ==
  IF Halted(first.m) \/ first.r # 0 THEN first
  ELSE mappagesFrom(first.m, pagetable, a + h * PGSIZE, n - h, pa + h * PGSIZE,
                    perm)

\* The loop of mappages over the n pages from a on, in order, stopping at the
\* first turn that fails or panics.  (The loop is cut in halves only to keep
\* the evaluation shallow: the turns and their order are the loop's.)
mappagesFrom(m, pagetable, a, n, pa, perm) ==
  IF n = 1 THEN mappagesAt(m, pagetable, a, pa, perm)
  ELSE mappagesRest(mappagesFrom(m, pagetable, a, n \div 2, pa, perm),
                    pagetable, a, n \div 2, n, pa, perm)

\* va + size - 1 is computed in 64 bits: with va + size = 0 it wraps to the
\* last byte of the address space, and the loop runs up to MAXVA, where walk
\* panics.
LastPage(va, size) ==
  IF va + size = 0 THEN MAXVA ELSE PGROUNDDOWN(va + size - 1)

\* The turns of the loop of mappages if none fails: up to a == last, or, when
\* last is below a (size is 0 and va page-aligned), up to MAXVA, where walk
\* panics.
mappagesTurns(va, size) ==
  IF PGROUNDDOWN(va) >= MAXVA THEN 1
  ELSE IF LastPage(va, size) < PGROUNDDOWN(va)
  THEN (MAXVA - PGROUNDDOWN(va)) \div PGSIZE + 1
  ELSE (LastPage(va, size) - PGROUNDDOWN(va)) \div PGSIZE + 1

mappages(m, pagetable, va, size, pa, perm) ==
  IF Halted(m) THEN [m |-> m, r |-> -1]
  ELSE mappagesFrom(m, pagetable, PGROUNDDOWN(va), mappagesTurns(va, size), pa,
                    perm)

\* if(mappages(..) != 0) panic(msg)
MustMap(r, msg) == IF r.r # 0 THEN Panic(r.m, msg) ELSE r.m

kvmmap(m, kpt, va, pa, size, perm) ==
  MustMap(mappages(m, kpt, va, size, pa, perm), "kvmmap")

uvmmap(m, pt, va, pa, size, perm) ==
  MustMap(mappages(m, pt, va, size, pa, perm), "uvmmap")

RECURSIVE uvmunmapFrom(_, _, _, _, _)

\* uvmunmap leaving the entry as it is.
uvmunmapClear_keep(m, pte, pagetable, a, stop, do_free) ==
  IF Halted(m) THEN m
  ELSE uvmunmapFrom(m, pagetable, a + PGSIZE, stop, do_free)

\* uvmunmap, after the page was freed or kept: *pte = 0, and the next page.
uvmunmapClear(m, pte, pagetable, a, stop, do_free) ==
  IF Halted(m) THEN m
  ELSE uvmunmapFrom(Store(m, pte, 0), pagetable, a + PGSIZE, stop, do_free)

\* uvmunmap, after pte = walk(pagetable, a, 0) gave w.
uvmunmapAt(w, pagetable, a, stop, do_free) ==
  IF Halted(w.m) THEN w.m
  ELSE IF w.pte = NULL THEN Panic(w.m, "uvmunmap: walk")
  ELSE IF BitAnd(Load(w.m, w.pte), PTE_V) = 0
       THEN Panic(w.m, "uvmunmap: not mapped")
  ELSE IF PTE_FLAGS(Load(w.m, w.pte)) = PTE_V
       THEN Panic(w.m, "uvmunmap: not a leaf")
  ELSE uvmunmapClear(IF do_free THEN kfree(w.m, PTE2PA(Load(w.m, w.pte))) ELSE w.m,
                     w.pte, pagetable, a, stop, do_free)

uvmunmapFrom(m, pagetable, a, stop, do_free) ==
  IF Halted(m) \/ ~(a < stop) THEN m
  ELSE uvmunmapAt(walk(m, pagetable, a, FALSE), pagetable, a, stop, do_free)

uvmunmap(m, pagetable, va, npages, do_free) ==
  IF Halted(m) THEN m
  ELSE IF va % PGSIZE # 0 THEN Panic(m, "uvmunmap: not aligned")
  ELSE uvmunmapFrom(m, pagetable, va, va + npages * PGSIZE, do_free)

(***************************************************************************)
(* The kernel address space, built once at boot.                           *)
(***************************************************************************)
PTE_RW == BitOr(PTE_R, PTE_W)
PTE_RX == BitOr(PTE_R, PTE_X)

\* The regions kvminit maps, in its order: <<va, pa, size, perm>>.
KernelRegions ==
  << <<UART0, UART0, PGSIZE, PTE_RW>>,
     <<VIRTIO0, VIRTIO0, PGSIZE, PTE_RW>>,
     <<CLINT, CLINT, 16 * PGSIZE, PTE_RW>>,
     <<PLIC, PLIC, 1024 * PGSIZE, PTE_RW>>,
     <<KERNBASE, KERNBASE, etext - KERNBASE, PTE_RX>>,
     <<etext, etext, PHYSTOP - etext, PTE_RW>>,
     <<TRAMPOLINE, trampoline, PGSIZE, PTE_RX>> >>

\* The kvmmap calls of kvminit from the i-th on.
RECURSIVE kvmmapAll(_, _, _)
kvmmapAll(m, kpt, i) ==
  IF i > Len(KernelRegions) THEN m
  ELSE kvmmapAll(kvmmap(m, kpt, KernelRegions[i][1], KernelRegions[i][2],
                        KernelRegions[i][3], KernelRegions[i][4]),
                 kpt, i + 1)

\* kvminit, after kernel_pagetable = (pagetable_t) kalloc() gave k.
kvminitIn(k) ==
  IF k.r = 0 THEN [m |-> Panic(k.m, "kerneltrap"), r |-> 0]
  ELSE [m |-> kvmmapAll(memset(k.m, k.r, 0), k.r, 1), r |-> k.r]

kvminit(m) == kvminitIn(kalloc(m))

(***************************************************************************)
(* The process address space.                                              *)
(***************************************************************************)
\* uvmcreate, after pagetable = (pagetable_t) kalloc() gave k.
uvmcreateIn(k) ==
  IF k.r = 0 THEN [m |-> k.m, r |-> 0]
  ELSE [m |-> memset(k.m, k.r, 0), r |-> k.r]

uvmcreate(m) == uvmcreateIn(kalloc(m))

\* uvmdealloc unmapping without freeing (do_free = 0).
uvmdealloc_nofree(m, pagetable, oldsz, newsz) ==
  IF Halted(m) THEN [m |-> m, r |-> 0]
  ELSE IF newsz >= oldsz THEN [m |-> m, r |-> oldsz]
  ELSE IF PGROUNDUP(newsz) < PGROUNDUP(oldsz)
  THEN [m |-> uvmunmap(m, pagetable, PGROUNDUP(newsz),
                       (PGROUNDUP(oldsz) - PGROUNDUP(newsz)) \div PGSIZE, FALSE),
        r |-> newsz]
  ELSE [m |-> m, r |-> newsz]

\* uvmdealloc stopping one page short of oldsz.
uvmdealloc_short(m, pagetable, oldsz, newsz) ==
  IF Halted(m) THEN [m |-> m, r |-> 0]
  ELSE IF newsz >= oldsz THEN [m |-> m, r |-> oldsz]
  ELSE IF PGROUNDUP(newsz) < PGROUNDUP(oldsz)
  THEN [m |-> uvmunmap(m, pagetable, PGROUNDUP(newsz),
                       (PGROUNDUP(oldsz) - PGROUNDUP(newsz)) \div PGSIZE - 1, TRUE),
        r |-> newsz]
  ELSE [m |-> m, r |-> newsz]

uvmdealloc(m, pagetable, oldsz, newsz) ==
  IF Halted(m) THEN [m |-> m, r |-> 0]
  ELSE IF newsz >= oldsz THEN [m |-> m, r |-> oldsz]
  ELSE IF PGROUNDUP(newsz) < PGROUNDUP(oldsz)
  THEN [m |-> uvmunmap(m, pagetable, PGROUNDUP(newsz),
                       (PGROUNDUP(oldsz) - PGROUNDUP(newsz)) \div PGSIZE, TRUE),
        r |-> newsz]
  ELSE [m |-> m, r |-> newsz]

PTE_RWXU == BitOr(BitOr(PTE_W, PTE_X), BitOr(PTE_R, PTE_U))

\* uvmalloc's exits through uvmdealloc(pagetable, a, oldsz): return 0.
uvmallocUndo(m, pagetable, a, oldsz) ==
  [m |-> uvmdealloc(m, pagetable, a, oldsz).m, r |-> 0]

RECURSIVE uvmallocFrom(_, _, _, _, _)

\* uvmalloc, after mappages(pagetable, a, PGSIZE, mem, ..) gave mp.
uvmallocMapped(mp, mem_, pagetable, a, oldsz, newsz) ==
  IF Halted(mp.m) THEN [m |-> mp.m, r |-> 0]
  ELSE IF mp.r # 0 THEN uvmallocUndo(kfree(mp.m, mem_), pagetable, a, oldsz)
  ELSE uvmallocFrom(mp.m, pagetable, a + PGSIZE, oldsz, newsz)

\* uvmalloc, after mem = kalloc() gave k.
uvmallocPage(k, pagetable, a, oldsz, newsz) ==
  IF k.r = 0 THEN uvmallocUndo(k.m, pagetable, a, oldsz)
  ELSE uvmallocMapped(mappages(memset(k.m, k.r, 0), pagetable, a, PGSIZE, k.r,
                               PTE_RWXU),
                      k.r, pagetable, a, oldsz, newsz)

\* The loop of uvmalloc from page a on; oldsz is already rounded up.
uvmallocFrom(m, pagetable, a, oldsz, newsz) ==
  IF Halted(m) THEN [m |-> m, r |-> 0]
  ELSE IF ~(a < newsz) THEN [m |-> m, r |-> newsz]
  ELSE uvmallocPage(kalloc(m), pagetable, a, oldsz, newsz)

uvmalloc(m, pagetable, oldsz, newsz) ==
  IF Halted(m) THEN [m |-> m, r |-> 0]
  ELSE IF newsz < oldsz THEN [m |-> m, r |-> oldsz]
  ELSE uvmallocFrom(m, pagetable, PGROUNDUP(oldsz), PGROUNDUP(oldsz), newsz)

\* The entries of a table that are not zero: the loop of freewalk does
\* nothing at the others.
NonZero(c) ==
  IF c.fill = 0 THEN DOMAIN c.ent ELSE {j \in 0 .. NPTE - 1 : Word(c, j) # 0}

PTE_RWX == BitOr(PTE_R, BitOr(PTE_W, PTE_X))

\* The least index of S.
Least(S) == CHOOSE x \in S : \A y \in S : x <= y

RECURSIVE freewalkFrom(_, _, _)

\* freewalk, after freewalk((pagetable_t)child): pagetable[j] = 0, and on.
freewalkClear(m, pagetable, j) ==
  IF Halted(m) THEN m
  ELSE freewalkFrom(Store(m, PteAddr(pagetable, j), 0), pagetable, j + 1)

\* The body of the loop passing over a valid leaf instead of panicking.
freewalkEntry_skip(m, pagetable, j, pte) ==
  IF HasFlag(pte, PTE_V) /\ BitAnd(pte, PTE_RWX) = 0
  THEN freewalkClear(freewalkFrom(m, PTE2PA(pte), 0), pagetable, j)
  ELSE freewalkFrom(m, pagetable, j + 1)

\* The body of freewalk's loop at entry j, whose value is pte.
freewalkEntry(m, pagetable, j, pte) ==
  IF HasFlag(pte, PTE_V) /\ BitAnd(pte, PTE_RWX) = 0
  THEN freewalkClear(freewalkFrom(m, PTE2PA(pte), 0), pagetable, j)
  ELSE IF HasFlag(pte, PTE_V) THEN Panic(m, "freewalk: leaf")
  ELSE freewalkFrom(m, pagetable, j + 1)

\* The loop of freewalk over the entries S that are not zero, then kfree.
freewalkOver(m, pagetable, S) ==
  IF S = {} THEN kfree(m, pagetable)
  ELSE freewalkEntry(m, pagetable, Least(S), Word(m.mem[pagetable], Least(S)))

freewalkFrom(m, pagetable, i) ==
  IF Halted(m) THEN m
  ELSE IF pagetable \notin Frames THEN Panic(m, "kerneltrap")
  ELSE freewalkOver(m, pagetable, {j \in NonZero(m.mem[pagetable]) : j >= i})

freewalk(m, pagetable) == freewalkFrom(m, pagetable, 0)

\* uvmfree without its freewalk.
uvmfree_nowalk(m, pagetable, size) ==
  IF size > 0
  THEN uvmunmap(m, pagetable, 0, PGROUNDUP(size) \div PGSIZE, TRUE)
  ELSE m

uvmfree(m, pagetable, size) ==
  freewalk(IF size > 0
           THEN uvmunmap(m, pagetable, 0, PGROUNDUP(size) \div PGSIZE, TRUE)
           ELSE m,
           pagetable)

\* uvmcopy's err: exit without its uvmunmap.
uvmcopyErr_keep(m, new, i) == [m |-> m, r |-> -1]

\* uvmcopy's err: exit: uvmunmap(new, 0, i / PGSIZE, 1); return -1.
uvmcopyErr(m, new, i) ==
  [m |-> uvmunmap(m, new, 0, i \div PGSIZE, TRUE), r |-> -1]

RECURSIVE uvmcopyFrom(_, _, _, _, _)

\* uvmcopy, after mappages(new, i, PGSIZE, mem, flags) gave mp.
uvmcopyMapped(mp, mem_, old, new, i, size) ==
  IF Halted(mp.m) THEN [m |-> mp.m, r |-> -1]
  ELSE IF mp.r # 0 THEN uvmcopyErr(kfree(mp.m, mem_), new, i)
  ELSE uvmcopyFrom(mp.m, old, new, i + PGSIZE, size)

\* uvmcopy mapping the parent's frame pa in the child, not the copy.
uvmcopyPage_share(k, pa, flags, old, new, i, size) ==
  IF k.r = 0 THEN uvmcopyErr(k.m, new, i)
  ELSE uvmcopyMapped(mappages(memmove(k.m, k.r, pa), new, i, PGSIZE, pa, flags),
                     k.r, old, new, i, size)

\* uvmcopy, after mem = kalloc() gave k: memmove(mem, pa, PGSIZE), mappages.
uvmcopyPage(k, pa, flags, old, new, i, size) ==
  IF k.r = 0 THEN uvmcopyErr(k.m, new, i)
  ELSE uvmcopyMapped(mappages(memmove(k.m, k.r, pa), new, i, PGSIZE, k.r, flags),
                     k.r, old, new, i, size)

\* uvmcopy, after pte = walk(old, i, 0) gave w.
uvmcopyAt(w, old, new, i, size) ==
  IF Halted(w.m) THEN [m |-> w.m, r |-> -1]
  ELSE IF w.pte = NULL THEN [m |-> Panic(w.m, "uvmcopy: pte should exist"), r |-> -1]
  ELSE IF BitAnd(Load(w.m, w.pte), PTE_V) = 0
       THEN [m |-> Panic(w.m, "uvmcopy: page not present"), r |-> -1]
  ELSE uvmcopyPage(kalloc(w.m), PTE2PA(Load(w.m, w.pte)),
                   PTE_FLAGS(Load(w.m, w.pte)), old, new, i, size)

\* The loop of uvmcopy from page i on.
uvmcopyFrom(m, old, new, i, size) ==
  IF Halted(m) THEN [m |-> m, r |-> -1]
  ELSE IF ~(i < size) THEN [m |-> m, r |-> 0]
  ELSE uvmcopyAt(walk(m, old, i, FALSE), old, new, i, size)

uvmcopy(m, old, new, size) == uvmcopyFrom(m, old, new, 0, size)

\* uvmclear, after pte = walk(pagetable, va, 0) gave w.
uvmclearAt(w) ==
  IF Halted(w.m) THEN w.m
  ELSE IF w.pte = NULL THEN Panic(w.m, "uvmclear")
  ELSE Store(w.m, w.pte, BitClear(Load(w.m, w.pte), PTE_U))

uvmclear(m, pagetable, va) == uvmclearAt(walk(m, pagetable, va, FALSE))

(***************************************************************************)
(* The per-process kernel page table (the shadow table).                   *)
(***************************************************************************)
\* The entries kernelpt has after the loop: its own entry 0, and the entries
\* 1 .. 511 of kpt.
CopiedEntries(c, k) ==
  [i \in (({0} \cap DOMAIN c.ent)
          \cup {j \in 1 .. NPTE - 1 : Word(k, j) # FillWord(c.fill)}) |->
     IF i = 0 THEN c.ent[0] ELSE Word(k, i)]

\* kernelpt[i] = kernel_pagetable[i] for i = 1 .. 511
CopyKernelEntries(m, kernelpt, kpt) ==
  [m EXCEPT !.mem[kernelpt] = [@ EXCEPT !.ent = CopiedEntries(m.mem[kernelpt],
                                                              m.mem[kpt])]]

\* The regions proc_kpt_init maps, in its order: <<va, pa, size, perm>>.
ShadowRegions ==
  << <<UART0, UART0, PGSIZE, PTE_RW>>,
     <<VIRTIO0, VIRTIO0, PGSIZE, PTE_RW>>,
     <<CLINT, CLINT, 16 * PGSIZE, PTE_RW>>,
     <<PLIC, PLIC, 1024 * PGSIZE, PTE_RW>> >>

\* The uvmmap calls of proc_kpt_init from the i-th on.
RECURSIVE uvmmapAll(_, _, _)
uvmmapAll(m, kernelpt, i) ==
  IF i > Len(ShadowRegions) THEN m
  ELSE uvmmapAll(uvmmap(m, kernelpt, ShadowRegions[i][1], ShadowRegions[i][2],
                        ShadowRegions[i][3], ShadowRegions[i][4]),
                 kernelpt, i + 1)

\* proc_kpt_init, after kernelpt = (pagetable_t) kalloc() gave k.
proc_kpt_initIn(k, kpt) ==
  IF k.r = 0 THEN [m |-> Panic(k.m, "kerneltrap"), r |-> 0]
  ELSE [m |-> uvmmapAll(CopyKernelEntries(memset(k.m, k.r, 0), k.r, kpt), k.r, 1),
        r |-> k.r]

proc_kpt_init(m, kpt) ==
  IF Halted(m) THEN [m |-> m, r |-> 0]
  ELSE proc_kpt_initIn(kalloc(m), kpt)

RECURSIVE setupMirror(_, _, _, _, _)

\* The first loop storing *kpte = *pte without clearing PTE_U, PTE_W, PTE_X.
setupMirrorStore_asis(w, kpte, pagetable, kernelpt, va, newsz) ==
  IF Halted(w.m) THEN w.m
  ELSE IF w.pte = NULL THEN Panic(w.m, "setupuvm2kvm: pte should exist")
  ELSE setupMirror(Store(w.m, kpte, Load(w.m, w.pte)),
                   pagetable, kernelpt, va + PGSIZE, newsz)

\* *kpte = *pte; *kpte &= ~(PTE_U | PTE_W | PTE_X), after pte = walk gave w.
setupMirrorStore(w, kpte, pagetable, kernelpt, va, newsz) ==
  IF Halted(w.m) THEN w.m
  ELSE IF w.pte = NULL THEN Panic(w.m, "setupuvm2kvm: pte should exist")
  ELSE setupMirror(Store(w.m, kpte,
                         BitClear(Load(w.m, w.pte),
                                  BitOr(PTE_U, BitOr(PTE_W, PTE_X)))),
                   pagetable, kernelpt, va + PGSIZE, newsz)

\* setup_uvmkvm's first loop, after kpte = walk(kernelpt, va, 1) gave kw.
setupMirrorAt(kw, pagetable, kernelpt, va, newsz) ==
  IF Halted(kw.m) THEN kw.m
  ELSE IF kw.pte = NULL THEN Panic(kw.m, "setupuvm2kvm: kpte should exist")
  ELSE setupMirrorStore(walk(kw.m, pagetable, va, FALSE), kw.pte, pagetable,
                        kernelpt, va, newsz)

\* The first loop walking the kernel's own page table instead of kernelpt.
setupMirror_kernel(m, pagetable, kernelpt, va, newsz) ==
  IF Halted(m) \/ ~(va < newsz) THEN m
  ELSE setupMirrorAt(walk(m, kernel_pagetable, va, TRUE), pagetable, kernelpt, va,
                     newsz)

\* The first loop of setup_uvmkvm: mirror the user entries of [oldsz, newsz).
setupMirror(m, pagetable, kernelpt, va, newsz) ==
  IF Halted(m) \/ ~(va < newsz) THEN m
  ELSE setupMirrorAt(walk(m, kernelpt, va, TRUE), pagetable, kernelpt, va, newsz)

RECURSIVE setupClear(_, _, _, _)

\* setup_uvmkvm's second loop, after kpte = walk(kernelpt, va, 1) gave kw.
setupClearAt(kw, kernelpt, va, oldsz) ==
  IF Halted(kw.m) THEN kw.m
  ELSE IF kw.pte = NULL THEN Panic(kw.m, "setupuvm2kvm: kpte should exist")
  ELSE setupClear(Store(kw.m, kw.pte, BitClear(Load(kw.m, kw.pte), PTE_V)),
                  kernelpt, va + PGSIZE, oldsz)

\* The second loop: invalidate the shadow entries of [newsz, oldsz).
setupClear(m, kernelpt, va, oldsz) ==
  IF Halted(m) \/ ~(va < oldsz) THEN m
  ELSE setupClearAt(walk(m, kernelpt, va, TRUE), kernelpt, va, oldsz)

setup_uvmkvm(m, pagetable, kernelpt, oldsz, newsz) ==
  IF Halted(m) THEN m
  ELSE IF newsz >= PLIC
  THEN Panic(m, "setupuvm2kvm: user process space is overwritten to kernel process space")
  ELSE setupClear(setupMirror(m, pagetable, kernelpt, oldsz, newsz),
                  kernelpt, newsz, oldsz)

(***************************************************************************)
(* Copy from kernel to user.  src is what is copied, one value for each    *)
(* 256-byte unit; a unit of a frame is kept in the first of its 32 words.  *)
(***************************************************************************)
WordOf(off) == (off * AddrUnit) \div 8

RECURSIVE memmoveUnits(_, _, _, _, _)
memmoveUnits(m, pa0, off, src, n) ==
  IF n = 0 THEN m
  ELSE memmoveUnits(Store(m, PteAddr(pa0, WordOf(off)), Head(src)),
                    pa0, off + 1, Tail(src), n - 1)

\* min(PGSIZE - (dstva - va0), len)
CopyLen(dstva, len) ==
  IF PGSIZE - (dstva - PGROUNDDOWN(dstva)) > len THEN len
  ELSE PGSIZE - (dstva - PGROUNDDOWN(dstva))

RECURSIVE copyout(_, _, _, _, _)

\* copyout going on to the next page from a page walkaddr does not give.
copyoutTo_skip(m, pa0, pagetable, dstva, src, len) ==
  copyout(IF pa0 = 0 THEN m
          ELSE memmoveUnits(m, pa0, dstva - PGROUNDDOWN(dstva), src,
                            CopyLen(dstva, len)),
          pagetable, PGROUNDDOWN(dstva) + PGSIZE,
          SubSeq(src, CopyLen(dstva, len) + 1, Len(src)),
          len - CopyLen(dstva, len))

\* copyout, after pa0 = walkaddr(pagetable, va0).
copyoutTo(m, pa0, pagetable, dstva, src, len) ==
  IF pa0 = 0 THEN [m |-> m, r |-> -1]
  ELSE copyout(memmoveUnits(m, pa0, dstva - PGROUNDDOWN(dstva), src,
                            CopyLen(dstva, len)),
               pagetable, PGROUNDDOWN(dstva) + PGSIZE,
               SubSeq(src, CopyLen(dstva, len) + 1, Len(src)),
               len - CopyLen(dstva, len))

copyout(m, pagetable, dstva, src, len) ==
  IF Halted(m) THEN [m |-> m, r |-> -1]
  ELSE IF ~(len > 0) THEN [m |-> m, r |-> 0]
  ELSE copyoutTo(m, walkaddr(m, pagetable, PGROUNDDOWN(dstva)), pagetable, dstva,
                 src, len)

(***************************************************************************)
(* Copy a null-terminated string from user to kernel.  copyinstr hands the *)
(* call to copyinstr_new, which is not in vm.c: unit by unit, until a 0 has *)
(* been copied or max units were; -1 for a page walkaddr does not give and *)
(* for max units without a 0.  dst is what was stored in the destination.  *)
(***************************************************************************)
RECURSIVE copyinstrFrom(_, _, _, _, _)

\* The unit at srcva, its page being at pa0.
copyinstrUnit(m, pa0, srcva) ==
  Load(m, PteAddr(pa0, WordOf(srcva - PGROUNDDOWN(srcva))))

\* After the unit at srcva was read.
copyinstrGot(m, pagetable, srcva, u, max, dst) ==
  IF u = 0 THEN [r |-> 0, dst |-> Append(dst, 0)]
  ELSE copyinstrFrom(m, pagetable, srcva + 1, max - 1, Append(dst, u))

\* After pa0 = walkaddr(pagetable, va0).
copyinstrAt(m, pa0, pagetable, srcva, max, dst) ==
  IF pa0 = 0 THEN [r |-> -1, dst |-> dst]
  ELSE copyinstrGot(m, pagetable, srcva, copyinstrUnit(m, pa0, srcva), max, dst)

\* copyinstr_new returning 0 when max units were copied without a 0.
copyinstrFrom_unbounded(m, pagetable, srcva, max, dst) ==
  IF ~(max > 0) THEN [r |-> 0, dst |-> dst]
  ELSE copyinstrAt(m, walkaddr(m, pagetable, PGROUNDDOWN(srcva)), pagetable,
                   srcva, max, dst)

copyinstrFrom(m, pagetable, srcva, max, dst) ==
  IF ~(max > 0) THEN [r |-> -1, dst |-> dst]
  ELSE copyinstrAt(m, walkaddr(m, pagetable, PGROUNDDOWN(srcva)), pagetable,
                   srcva, max, dst)

copyinstr_new(m, pagetable, srcva, max) ==
  copyinstrFrom(m, pagetable, srcva, max, <<>>)

copyinstr(m, pagetable, srcva, max) == copyinstr_new(m, pagetable, srcva, max)

(***************************************************************************)
(* What a page table holds.                                                *)
(***************************************************************************)
ValidIdx(c) == {j \in NonZero(c) : HasFlag(Word(c, j), PTE_V)}

\* The valid entries of table t: <<index, the frame the entry points at>>.
Children(m, t) ==
  IF t \in Frames
  THEN {<<i, PTE2PA(Word(m.mem[t], i))>> : i \in ValidIdx(m.mem[t])}
  ELSE {}

VaOf(i2, i1, i0) == ((i2 * NPTE + i1) * NPTE + i0) * PGSIZE

\* The valid level-0 entries walk reaches from root: <<va, entry>>.
Leaves(m, root) ==
  UNION {UNION {{<<VaOf(c2[1], c1[1], c0[1]), Word(m.mem[c1[2]], c0[1])>> :
                   c0 \in Children(m, c1[2])} :
                c1 \in Children(m, c2[2])} :
         c2 \in Children(m, root)}

\* The frames of the tree's tables: the root, its level-1 and level-0 tables.
TableFrames(m, root) ==
  IF root \notin Frames THEN {}
  ELSE {root} \cup {c2[2] : c2 \in Children(m, root)}
       \cup UNION {{c1[2] : c1 \in Children(m, c2[2])} : c2 \in Children(m, root)}

DataFrames(m, root) == {PTE2PA(l[2]) : l \in Leaves(m, root)}

\* What each mapped user page holds: <<va, contents of its frame>>.
PageData(m, root) ==
  {<<l[1], IF PTE2PA(l[2]) \in Frames THEN m.mem[PTE2PA(l[2])] ELSE Filled(0)>> :
     l \in Leaves(m, root)}

\* The frames the logged calls allocated and freed; Exhausted: a kalloc of the
\* log returned 0.
Allocated(lg) ==
  {lg[i][2] : i \in {j \in 1 .. Len(lg) : lg[j][1] = "kalloc" /\ lg[j][2] # 0}}
Exhausted(lg) == \E j \in 1 .. Len(lg) : lg[j] = <<"kalloc", 0>>
Freed(lg) == {lg[i][2] : i \in {j \in 1 .. Len(lg) : lg[j][1] = "kfree"}}

(***************************************************************************)
(* The state after boot: kinit, kvminit, and the other subsystems' frames  *)
(* (kernel stacks, pipes, other processes) taken, k frames being left.     *)
(***************************************************************************)
Boot == kvminit(kinit)

RECURSIVE Reserve(_, _)
Reserve(m, n) == IF n <= 0 THEN m ELSE Reserve(kalloc(m).m, n - 1)

BootWith(k) == [Reserve(Boot.m, Len(FreeList(Boot.m)) - k) EXCEPT !.log = <<>>]

\* The sizes tried: page-aligned or not.
Sizes ==
  {s \in {pg * PGSIZE + off : pg \in 0 .. MaxPages, off \in {0, 1, PGSIZE - 1}} :
     s <= MaxPages * PGSIZE}

\* The machine of the current state, its log empty for the next operation.
M == [mem |-> mem, freelist |-> freelist, panic |-> panicked, log |-> <<>>]

SetM(m) ==
  /\ mem' = m.mem
  /\ freelist' = m.freelist
  /\ panicked' = m.panic
  /\ log' = m.log

\* What an operation found: the free frames, the process's and the child's
\* mappings, tables and page contents.
Snap ==
  [nfree |-> Len(FreeList(M)),
   leaves |-> Leaves(M, p_pagetable),
   data |-> PageData(M, p_pagetable),
   tabs |-> TableFrames(M, p_pagetable),
   cleaves |-> Leaves(M, np_pagetable),
   cdata |-> PageData(M, np_pagetable),
   ctabs |-> TableFrames(M, np_pagetable)]

NoSnap ==
  [nfree |-> 0, leaves |-> {}, data |-> {}, tabs |-> {}, cleaves |-> {},
   cdata |-> {}, ctabs |-> {}]

NoPrev == [op |-> "", a |-> 0, b |-> 0, ret |-> 0, nfree |-> 0, ntabs |-> 0]

\* The record of an operation: its name, arguments a, b and c, result, what
\* it found (pre), the call it directly follows where that matters (prev),
\* and the number of free frames when the process's page table was created
\* (base).
Did(op, a, b, ret) ==
  [op |-> op, a |-> a, b |-> b, c |-> 0, ret |-> ret, pre |-> Snap,
   prev |-> NoPrev, base |-> last.base]

AllocIdle ==
  /\ lock = 0
  /\ pc = <<>>
  /\ local = <<>>
  /\ held = <<>>

InitProc(m) ==
  /\ mem = m.mem
  /\ freelist = m.freelist
  /\ panicked = m.panic
  /\ log = <<>>
  /\ kernel_pagetable = Boot.r
  /\ p_pagetable = 0
  /\ p_sz = 0
  /\ p_kpagetable = 0
  /\ np_pagetable = 0
  /\ np_sz = 0
  /\ nprocs = 0
  /\ last = [op |-> "boot", a |-> 0, b |-> 0, c |-> 0, ret |-> 0, pre |-> NoSnap,
             prev |-> NoPrev, base |-> Len(FreeList(m))]

InitWith(m) == InitProc(m) /\ AllocIdle

Init == \E k \in 0 .. MaxFree : InitWith(BootWith(k))

allocVars == <<lock, pc, local, held>>

(***************************************************************************)
(* The operations on the process's address space.                          *)
(***************************************************************************)
\* allocproc: p->pagetable = uvmcreate()
Create ==
  /\ panicked = "" /\ p_pagetable = 0 /\ nprocs < MaxProcs
  /\ LET r == uvmcreate(M) IN
     /\ SetM(r.m)
     /\ p_pagetable' = r.r
     /\ p_sz' = 0
     /\ last' = [Did("uvmcreate", 0, 0, r.r) EXCEPT !.base = Len(FreeList(M))]
  /\ nprocs' = nprocs + 1
  /\ UNCHANGED <<kernel_pagetable, p_kpagetable, np_pagetable, np_sz, allocVars>>

\* growproc, n > 0: sz = uvmalloc(p->pagetable, p->sz, newsz); 0 leaves p->sz.
Grow(newsz) ==
  /\ panicked = "" /\ p_pagetable # 0
  /\ LET r == uvmalloc(M, p_pagetable, p_sz, newsz) IN
     /\ SetM(r.m)
     /\ p_sz' = IF r.r = 0 THEN p_sz ELSE r.r
     /\ last' = Did("uvmalloc", p_sz, newsz, r.r)
  /\ UNCHANGED <<kernel_pagetable, p_pagetable, p_kpagetable, np_pagetable, np_sz,
                 nprocs, allocVars>>

\* growproc, n < 0: p->sz = uvmdealloc(p->pagetable, p->sz, newsz)
Shrink(newsz) ==
  /\ panicked = "" /\ p_pagetable # 0
  /\ LET r == uvmdealloc(M, p_pagetable, p_sz, newsz) IN
     /\ SetM(r.m)
     /\ p_sz' = r.r
     /\ last' = [Did("uvmdealloc", p_sz, newsz, r.r) EXCEPT
                   !.prev = IF last.op = "uvmalloc"
                            THEN [op |-> last.op, a |-> last.a, b |-> last.b,
                                  ret |-> last.ret, nfree |-> last.pre.nfree,
                                  ntabs |-> Cardinality(last.pre.tabs)]
                            ELSE NoPrev]
  /\ UNCHANGED <<kernel_pagetable, p_pagetable, p_kpagetable, np_pagetable, np_sz,
                 nprocs, allocVars>>

\* freeproc: uvmfree(p->pagetable, p->sz)
Destroy ==
  /\ panicked = "" /\ p_pagetable # 0
  /\ SetM(uvmfree(M, p_pagetable, p_sz))
  /\ p_pagetable' = 0
  /\ p_sz' = 0
  /\ last' = Did("uvmfree", p_sz, 0, 0)
  /\ UNCHANGED <<kernel_pagetable, p_kpagetable, np_pagetable, np_sz, nprocs,
                 allocVars>>

Next ==
  \/ Create
  \/ \E n \in Sizes : Grow(n)
  \/ \E n \in Sizes : Shrink(n)
  \/ Destroy

Spec == Init /\ [][Next]_vars

(***************************************************************************)
(* C1.  A uvmalloc that finds the allocator exhausted (a kalloc of the     *)
(* call returned 0, for a data frame or for a table of the k-th new page)  *)
(* returns 0, leaves exactly the valid leaf mappings it found, and every   *)
(* data frame it allocated is back on the free list (the frames it         *)
(* allocated and kept are tables of the tree).                             *)
(***************************************************************************)
GrowFailsCleanly ==
  (last.op = "uvmalloc" /\ Exhausted(log))
    => /\ last.ret = 0
       /\ panicked = ""
       /\ Leaves(M, p_pagetable) = last.pre.leaves
       /\ \A f \in Allocated(log) :
            \/ f \in FreeSet(M)
            \/ f \in TableFrames(M, p_pagetable) \ DataFrames(M, p_pagetable)

\* A grow failed at its second page: it had installed the tables and mapped
\* the first page, which it took back.
GrowFailedPartway ==
  /\ last.op = "uvmalloc" /\ Exhausted(log)
  /\ last.ret = 0
  /\ Freed(log) # {}
  /\ Cardinality(TableFrames(M, p_pagetable)) > Cardinality(last.pre.tabs) + 1

(***************************************************************************)
(* C7.  As the text has it: on an address space without intermediate       *)
(* tables, grow(0, N) with N > 0 that succeeds, directly followed by       *)
(* shrink(N, 0), leaves as many free frames as there were before the       *)
(* grow.                                                                   *)
(***************************************************************************)
GrewThenShrank ==
  /\ last.op = "uvmdealloc" /\ last.b = 0
  /\ last.prev.op = "uvmalloc" /\ last.prev.a = 0 /\ last.prev.b > 0
  /\ last.prev.ret = last.prev.b /\ last.a = last.prev.b
  /\ last.prev.ntabs = 1

GrowShrinkRestoresCount ==
  GrewThenShrank => Len(FreeList(M)) = last.prev.nfree

\* C7, as the code has it: the shrink returns every data frame, and the
\* free frames are fewer than before the grow by the tables the grow
\* installed, which stay in the tree: two, for up to 512 pages.
GrowShrinkKeepsTables ==
  GrewThenShrank
    => /\ panicked = ""
       /\ last.ret = 0 /\ p_sz = 0
       /\ Leaves(M, p_pagetable) = {}
       /\ Cardinality(TableFrames(M, p_pagetable)) = 3
       /\ Len(FreeList(M)) =
            last.prev.nfree - (Cardinality(TableFrames(M, p_pagetable)) - 1)
       /\ Cardinality(Freed(log)) = PGROUNDUP(last.a) \div PGSIZE

\* A grow of a fresh address space to two pages, then the shrink to 0.
GrewTwoThenShrank == GrewThenShrank /\ last.a > PGSIZE

(***************************************************************************)
(* C8.  uvmfree on an address space that grows and shrinks, failed ones    *)
(* included, brought to size p->sz: it frees each data frame and each      *)
(* table frame of the tree exactly once, the data frames before any table  *)
(* frame, and the free frames are as many as before uvmcreate.             *)
(***************************************************************************)
KfreeLog == SelectSeq(log, LAMBDA e : e[1] = "kfree")

DestroyReturnsAll ==
  last.op = "uvmfree"
    => LET data == {PTE2PA(l[2]) : l \in last.pre.leaves}
           tabs == last.pre.tabs
       IN /\ panicked = ""
          /\ Freed(log) = data \cup tabs
          /\ Len(KfreeLog) = Cardinality(data \cup tabs)
          /\ \A i, j \in 1 .. Len(KfreeLog) :
               (KfreeLog[i][2] \in data /\ KfreeLog[j][2] \in tabs) => i < j
          /\ (data \cup tabs) \subseteq FreeSet(M)
          /\ Len(FreeList(M)) = last.base

\* The destruction of an address space of two pages and three tables.
DestroyedTwoPages ==
  /\ last.op = "uvmfree"
  /\ Cardinality(last.pre.leaves) = 2
  /\ Cardinality(last.pre.tabs) = 3

(***************************************************************************)
(* A shrink whose caller holds an old size larger than what is mapped      *)
(* (vm.c:261: "oldsz can be larger than the actual process size").         *)
(***************************************************************************)
ShrinkStale(oldsz, newsz) ==
  /\ panicked = "" /\ p_pagetable # 0
  /\ oldsz > p_sz /\ newsz < oldsz
  /\ LET r == uvmdealloc(M, p_pagetable, oldsz, newsz) IN
     /\ SetM(r.m)
     /\ p_sz' = r.r
     /\ last' = Did("uvmdealloc_stale", oldsz, newsz, r.r)
  /\ UNCHANGED <<kernel_pagetable, p_pagetable, p_kpagetable, np_pagetable, np_sz,
                 nprocs, allocVars>>

NextStale ==
  \/ Next
  \/ \E o, n \in Sizes : ShrinkStale(o, n)

SpecStale == Init /\ [][NextStale]_vars

(***************************************************************************)
(* C9.  uvmdealloc(oldsz, newsz) with oldsz larger than the size mapped    *)
(* and newsz < oldsz does not panic, returns newsz, and leaves no valid    *)
(* leaf at or above PGROUNDUP(newsz).                                      *)
(***************************************************************************)
StaleShrinkSafe ==
  last.op = "uvmdealloc_stale"
    => /\ panicked = ""
       /\ last.ret = last.b
       /\ \A l \in Leaves(M, p_pagetable) : l[1] < PGROUNDUP(last.b)

(***************************************************************************)
(* fork: the child's page table is created and the parent's memory copied  *)
(* into it; both then write their memory.                                  *)
(***************************************************************************)
\* The addresses written and guarded: one in each page.
PageVas == {pg * PGSIZE + 1 : pg \in 0 .. MaxPages - 1}

\* copyout(p->pagetable, va, &v, 1 unit)
Write(va, v) ==
  /\ panicked = "" /\ p_pagetable # 0
  /\ LET r == copyout(M, p_pagetable, va, <<v>>, 1) IN
     /\ SetM(r.m)
     /\ last' = Did("copyout", va, v, r.r)
  /\ UNCHANGED <<kernel_pagetable, p_pagetable, p_sz, p_kpagetable, np_pagetable,
                 np_sz, nprocs, allocVars>>

\* exec's guard page: uvmclear(pagetable, va)
Guard(va) ==
  /\ panicked = "" /\ p_pagetable # 0 /\ va < p_sz
  /\ SetM(uvmclear(M, p_pagetable, va))
  /\ last' = Did("uvmclear", va, 0, 0)
  /\ UNCHANGED <<kernel_pagetable, p_pagetable, p_sz, p_kpagetable, np_pagetable,
                 np_sz, nprocs, allocVars>>

\* fork's allocproc: np->pagetable = uvmcreate()
CreateChild ==
  /\ panicked = "" /\ p_pagetable # 0 /\ np_pagetable = 0
  /\ nprocs < MaxProcs + 1
  /\ LET r == uvmcreate(M) IN
     /\ SetM(r.m)
     /\ np_pagetable' = r.r
     /\ np_sz' = 0
     /\ last' = Did("uvmcreate_child", 0, 0, r.r)
  /\ nprocs' = nprocs + 1
  /\ UNCHANGED <<kernel_pagetable, p_pagetable, p_sz, p_kpagetable, allocVars>>

\* fork: uvmcopy(p->pagetable, np->pagetable, p->sz) < 0 ? ... : np->sz = p->sz
Copy ==
  /\ panicked = "" /\ np_pagetable # 0 /\ last.op = "uvmcreate_child"
  /\ LET r == uvmcopy(M, p_pagetable, np_pagetable, p_sz) IN
     /\ SetM(r.m)
     /\ np_sz' = IF r.r = 0 THEN p_sz ELSE 0
     /\ last' = Did("uvmcopy", p_sz, 0, r.r)
  /\ UNCHANGED <<kernel_pagetable, p_pagetable, p_sz, p_kpagetable, np_pagetable,
                 nprocs, allocVars>>

\* copyout(np->pagetable, va, &v, 1 unit)
ChildWrite(va, v) ==
  /\ panicked = "" /\ np_pagetable # 0 /\ np_sz > 0
  /\ LET r == copyout(M, np_pagetable, va, <<v>>, 1) IN
     /\ SetM(r.m)
     /\ last' = Did("copyout_child", va, v, r.r)
  /\ UNCHANGED <<kernel_pagetable, p_pagetable, p_sz, p_kpagetable, np_pagetable,
                 np_sz, nprocs, allocVars>>

\* freeproc(np): uvmfree(np->pagetable, np->sz)
ChildFree ==
  /\ panicked = "" /\ np_pagetable # 0 /\ last.op # "uvmcreate_child"
  /\ SetM(uvmfree(M, np_pagetable, np_sz))
  /\ np_pagetable' = 0
  /\ np_sz' = 0
  /\ last' = Did("uvmfree_child", np_sz, 0, 0)
  /\ UNCHANGED <<kernel_pagetable, p_pagetable, p_sz, p_kpagetable, nprocs,
                 allocVars>>

\* The sizes the parent grows to before it forks.
ForkSizes == {pg * PGSIZE : pg \in 1 .. MaxPages}

InitFork == \E k \in MaxFree .. 2 * MaxFree : InitWith(BootWith(k))

NextFork ==
  \/ Create
  \/ \E n \in ForkSizes : Grow(n)
  \/ \E va \in PageVas : Write(va, 9)
  \/ \E va \in PageVas : Guard(va)
  \/ CreateChild
  \/ Copy
  \/ \E va \in PageVas : ChildWrite(va, 8)
  \/ ChildFree

SpecFork == InitFork /\ [][NextFork]_vars

(***************************************************************************)
(* C2.  A uvmcopy that fails (it returns -1: a kalloc of the call, for a    *)
(* page or for a table of the child, returned 0) leaves the child without  *)
(* a valid leaf, has every frame it allocated for the child's pages back   *)
(* on the free list (the frames it keeps are tables of the child), and     *)
(* leaves the parent's mappings and page contents as they were.            *)
(***************************************************************************)
CopyFailsCleanly ==
  (last.op = "uvmcopy" /\ last.ret = -1)
    => /\ panicked = ""
       /\ Exhausted(log)
       /\ Leaves(M, np_pagetable) = {}
       /\ \A f \in Allocated(log) :
            \/ f \in FreeSet(M)
            \/ f \in TableFrames(M, np_pagetable)
       /\ Leaves(M, p_pagetable) = last.pre.leaves
       /\ PageData(M, p_pagetable) = last.pre.data

\* A copy failed at the parent's second page: the child's tables were there
\* and its first page was mapped, then taken back.
CopyFailedPartway ==
  /\ last.op = "uvmcopy" /\ last.ret = -1
  /\ Freed(log) # {}
  /\ Cardinality(TableFrames(M, np_pagetable)) = 3
  /\ Cardinality(last.pre.leaves) = 2

(***************************************************************************)
(* C4.  After a uvmcopy that succeeds, at every page the parent maps the   *)
(* child maps a frame of its own (the child's frames are distinct from     *)
(* each other and from the parent's) with the parent's contents and the    *)
(* parent's flags; and a later write through one page table leaves what    *)
(* the other one's pages hold alone.                                       *)
(***************************************************************************)
FlagsOf(ls) == {<<l[1], PTE_FLAGS(l[2])>> : l \in ls}

ForkCopies ==
  /\ (last.op = "uvmcopy" /\ last.ret = 0)
       => /\ panicked = ""
          /\ FlagsOf(Leaves(M, np_pagetable)) = FlagsOf(Leaves(M, p_pagetable))
          /\ {l[1] : l \in Leaves(M, p_pagetable)} =
               {pg * PGSIZE : pg \in 0 .. (PGROUNDUP(p_sz) \div PGSIZE) - 1}
          /\ DataFrames(M, np_pagetable) \cap DataFrames(M, p_pagetable) = {}
          /\ Cardinality(DataFrames(M, np_pagetable)) =
               Cardinality(Leaves(M, np_pagetable))
          /\ PageData(M, np_pagetable) = PageData(M, p_pagetable)
          /\ Leaves(M, p_pagetable) = last.pre.leaves
          /\ PageData(M, p_pagetable) = last.pre.data
  /\ (last.op = "copyout" /\ np_sz > 0)
       => PageData(M, np_pagetable) = last.pre.cdata
  /\ last.op = "copyout_child"
       => PageData(M, p_pagetable) = last.pre.data

\* A parent of two pages, one written and one guarded, was copied.
ForkCopiedTwo ==
  /\ last.op = "uvmcopy" /\ last.ret = 0
  /\ Cardinality(Leaves(M, np_pagetable)) = 2
  /\ \E d \in PageData(M, np_pagetable) : d[2] # Filled(0)
  /\ \E l \in Leaves(M, np_pagetable) : ~HasFlag(l[2], PTE_U)

(***************************************************************************)
(* A process with a kernel page table of its own: allocproc creates both   *)
(* tables, and growproc has setup_uvmkvm follow uvmalloc and uvmdealloc    *)
(* with the sizes it gave them.                                            *)
(***************************************************************************)
\* allocproc, after p->pagetable = uvmcreate() gave r: p->kpagetable.
AllocKpt(r) == IF r.r = 0 THEN r ELSE proc_kpt_init(r.m, kernel_pagetable)

AllocProcDone(r, k) ==
  /\ SetM(k.m)
  /\ p_pagetable' = r.r
  /\ p_kpagetable' = IF r.r = 0 THEN 0 ELSE k.r
  /\ p_sz' = 0
  /\ last' = [Did("allocproc", 0, 0, r.r) EXCEPT !.base = Len(FreeList(M))]

AllocProcWith(r) == AllocProcDone(r, AllocKpt(r))

AllocProc ==
  /\ panicked = "" /\ p_pagetable = 0 /\ nprocs < MaxProcs
  /\ AllocProcWith(uvmcreate(M))
  /\ nprocs' = nprocs + 1
  /\ UNCHANGED <<kernel_pagetable, np_pagetable, np_sz, allocVars>>

\* growproc, after uvmalloc or uvmdealloc gave r and left the machine m.
SyncDone(op, m, newsz, ret) ==
  /\ SetM(m)
  /\ p_sz' = IF ret = 0 /\ newsz > 0 THEN p_sz ELSE ret
  /\ last' = Did(op, p_sz, newsz, ret)

GrowSync(r, newsz) ==
  SyncDone("grow_sync",
           IF r.r = 0 THEN r.m
           ELSE setup_uvmkvm(r.m, p_pagetable, p_kpagetable, p_sz, newsz),
           newsz, r.r)

\* growproc, n > 0: uvmalloc(p->pagetable, sz, sz + n), then setup_uvmkvm
GrowProc(newsz) ==
  /\ panicked = "" /\ p_kpagetable # 0 /\ newsz > p_sz
  /\ GrowSync(uvmalloc(M, p_pagetable, p_sz, newsz), newsz)
  /\ UNCHANGED <<kernel_pagetable, p_pagetable, p_kpagetable, np_pagetable, np_sz,
                 nprocs, allocVars>>

ShrinkSync(r, newsz) ==
  SyncDone("shrink_sync",
           setup_uvmkvm(r.m, p_pagetable, p_kpagetable, p_sz, newsz),
           newsz, r.r)

\* growproc, n < 0: uvmdealloc(p->pagetable, sz, sz + n), then setup_uvmkvm
ShrinkProc(newsz) ==
  /\ panicked = "" /\ p_kpagetable # 0 /\ newsz < p_sz
  /\ ShrinkSync(uvmdealloc(M, p_pagetable, p_sz, newsz), newsz)
  /\ UNCHANGED <<kernel_pagetable, p_pagetable, p_kpagetable, np_pagetable, np_sz,
                 nprocs, allocVars>>

InitShadow == \E k \in MaxFree + 2 .. 2 * MaxFree + 2 : InitWith(BootWith(k))

NextShadow ==
  \/ AllocProc
  \/ \E n \in Sizes : GrowProc(n)
  \/ \E n \in Sizes : ShrinkProc(n)
  \/ \E va \in PageVas : Guard(va)

SpecShadow == InitShadow /\ [][NextShadow]_vars

(***************************************************************************)
(* C6.  After every grow and shrink that setup_uvmkvm followed with the    *)
(* same sizes, the process's kernel page table has a valid entry at a user *)
(* page exactly when the user table has a valid leaf there, and the entry  *)
(* is the user's entry with PTE_U, PTE_W and PTE_X cleared.  (The user     *)
(* pages are those below CLINT, the lowest address proc_kpt_init maps.)    *)
(***************************************************************************)
MirrorOf(pte) == BitClear(pte, BitOr(PTE_U, BitOr(PTE_W, PTE_X)))

ShadowMirrors ==
  (p_kpagetable # 0 /\ panicked = "")
    => {l \in Leaves(M, p_kpagetable) : l[1] < CLINT}
         = {<<l[1], MirrorOf(l[2])>> : l \in Leaves(M, p_pagetable)}

(***************************************************************************)
(* C10.  Every entry of every table of the kernel's, the process's and     *)
(* the process's kernel page table is invalid with no flag bit set, or     *)
(* valid: a leaf (one of R, W, X set) or an internal entry (none set).     *)
(***************************************************************************)
AllEntries(m, root) ==
  UNION {{Word(m.mem[t], i) : i \in NonZero(m.mem[t])} : t \in TableFrames(m, root)}

EntriesLegal ==
  panicked = ""
    => \A root \in {kernel_pagetable, p_pagetable, p_kpagetable} :
         \A e \in AllEntries(M, root) : HasFlag(e, PTE_V) \/ PTE_FLAGS(e) = 0

\* C10, as the code has it: an entry of the kernel's or of the process's
\* table is invalid with no flag bit set, or valid; so is an entry of the
\* process's kernel page table, but for the entries setup_uvmkvm
\* invalidated, which keep their frame and PTE_R and have PTE_V, PTE_W,
\* PTE_X and PTE_U clear.
EntriesLegalButStale ==
  panicked = ""
    => /\ \A root \in {kernel_pagetable, p_pagetable} :
            \A e \in AllEntries(M, root) : HasFlag(e, PTE_V) \/ PTE_FLAGS(e) = 0
       /\ \A e \in AllEntries(M, p_kpagetable) :
            \/ HasFlag(e, PTE_V)
            \/ PTE_FLAGS(e) = 0
            \/ PTE_FLAGS(e) = PTE_R /\ PTE2PA(e) \in Frames

\* A shrink that setup_uvmkvm followed left an entry without PTE_V that is
\* not 0 in the process's kernel page table.
ShadowEntryStale ==
  /\ panicked = "" /\ last.op = "shrink_sync" /\ p_kpagetable # 0
  /\ \E e \in AllEntries(M, p_kpagetable) : ~HasFlag(e, PTE_V)

(***************************************************************************)
(* One page mapped in a fresh page table, then translated: mappages and    *)
(* walkaddr over the addresses, frames and permissions below.              *)
(***************************************************************************)
\* Page-aligned virtual addresses below MAXVA, which differ at level 0, at
\* level 1 and at level 2.
MapVas ==
  {0, PGSIZE, (NPTE - 1) * PGSIZE, NPTE * PGSIZE,
   (NPTE * NPTE + 3) * PGSIZE, MAXVA - PGSIZE}

\* Page-aligned physical addresses: of RAM, of a device, and 0.
MapPas == {0, PGSIZE, UART0, KERNBASE, PHYSTOP - PGSIZE}

\* The subsets of PTE_R | PTE_W | PTE_X | PTE_U.
Perms ==
  {r + w + x + u : r \in {0, PTE_R}, w \in {0, PTE_W}, x \in {0, PTE_X},
                   u \in {0, PTE_U}}

\* mappages(pagetable, va, PGSIZE, pa, perm) on the page table just created
MapPageDone(r, va, pa, perm) ==
  /\ SetM(r.m)
  /\ last' = [Did("mappages", va, pa, r.r) EXCEPT !.c = perm]

MapPage(va, pa, perm) ==
  /\ panicked = "" /\ p_pagetable # 0 /\ last.op = "uvmcreate"
  /\ MapPageDone(mappages(M, p_pagetable, va, PGSIZE, pa, perm), va, pa, perm)
  /\ UNCHANGED <<kernel_pagetable, p_pagetable, p_sz, p_kpagetable, np_pagetable,
                 np_sz, nprocs, allocVars>>

\* walkaddr(pagetable, va) for the va just mapped
Translate ==
  /\ panicked = "" /\ last.op = "mappages"
  /\ last' = [last EXCEPT !.op = "walkaddr",
                          !.ret = walkaddr(M, p_pagetable, last.a),
                          !.prev = [NoPrev EXCEPT !.op = "mappages",
                                                  !.ret = last.ret]]
  /\ UNCHANGED <<mem, freelist, panicked, log, kernel_pagetable, p_pagetable, p_sz,
                 p_kpagetable, np_pagetable, np_sz, nprocs, allocVars>>

NextMap ==
  \/ Create
  \/ \E va \in MapVas, pa \in MapPas, perm \in Perms : MapPage(va, pa, perm)
  \/ Translate

SpecMap == Init /\ [][NextMap]_vars

\* The level-0 entry of va is valid.
LeafValid(va) == \E l \in Leaves(M, p_pagetable) : l[1] = va

(***************************************************************************)
(* C3.  As the text has it: for page-aligned va < MAXVA and page-aligned   *)
(* pa, mappages(va, PGSIZE, pa, perm) on a fresh page table followed by    *)
(* walkaddr(va) gives pa if and only if perm has PTE_U; without PTE_U it   *)
(* gives 0 though the leaf is valid.                                       *)
(***************************************************************************)
Translated == last.op = "walkaddr" /\ last.prev.ret = 0

MapThenTranslate ==
  Translated
    => /\ (last.ret = last.b) <=> HasFlag(last.c, PTE_U)
       /\ ~HasFlag(last.c, PTE_U) => (last.ret = 0 /\ LeafValid(last.a))

\* C3, as the code has it: the same for pa # 0, when mappages returned 0;
\* walkaddr's 0 stands for "not mapped" and for the frame at 0 alike.
MapThenTranslateNonzero ==
  (Translated /\ last.b # 0)
    => /\ LeafValid(last.a)
       /\ (last.ret = last.b) <=> HasFlag(last.c, PTE_U)
       /\ ~HasFlag(last.c, PTE_U) => last.ret = 0

\* A page of RAM mapped readable and writable without PTE_U, and translated.
TranslatedKernelPage ==
  /\ Translated /\ last.b = PHYSTOP - PGSIZE
  /\ last.c = PTE_RW
  /\ last.a = (NPTE * NPTE + 3) * PGSIZE

(***************************************************************************)
(* The allocator under concurrency: NCPU threads call kalloc and kfree,    *)
(* a step at a time.  kmem.lock is 0 or the thread that holds it; pc is    *)
(* where each thread is, local its r (kalloc) or pa (kfree), held the      *)
(* frames kalloc gave it and it has not freed.                             *)
(***************************************************************************)
Threads == 1 .. NCPU

InitAlloc ==
  \E k \in 1 .. MaxPool :
    /\ InitProc(BootWith(k))
    /\ lock = 0
    /\ pc = [t \in Threads |-> "idle"]
    /\ local = [t \in Threads |-> 0]
    /\ held = [t \in Threads |-> {}]

procVars ==
  <<panicked, kernel_pagetable, p_pagetable, p_sz, p_kpagetable, np_pagetable,
    np_sz, nprocs, last>>

\* kmem.freelist after kalloc's kmem.freelist = r->next.
kallocNext_stay(c, r) == r

kallocNext(c, r) == Word(c[r], 0)

\* kfree taking the lock before it fills the frame.
KfreeCall_locked(t, pa) ==
  /\ pc[t] = "idle" /\ pa \in held[t] /\ lock = 0
  /\ lock' = t
  /\ pc' = [pc EXCEPT ![t] = "kfree_memset"]
  /\ local' = [local EXCEPT ![t] = pa]
  /\ held' = [held EXCEPT ![t] = @ \ {pa}]
  /\ UNCHANGED <<mem, freelist, log, procVars>>

\* kfree(pa): the checks, that pass for a frame kalloc gave
KfreeCall(t, pa) ==
  /\ pc[t] = "idle" /\ pa \in held[t]
  /\ ~(pa % PGSIZE # 0 \/ pa < end \/ pa >= PHYSTOP)
  /\ pc' = [pc EXCEPT ![t] = "kfree_memset"]
  /\ local' = [local EXCEPT ![t] = pa]
  /\ held' = [held EXCEPT ![t] = @ \ {pa}]
  /\ UNCHANGED <<mem, freelist, log, lock, procVars>>

\* memset(pa, 1, PGSIZE), before the lock is taken
KfreeFill(t) ==
  /\ pc[t] = "kfree_memset"
  /\ mem' = [mem EXCEPT ![local[t]] = Filled(1)]
  /\ pc' = [pc EXCEPT ![t] = "kfree_acquire"]
  /\ UNCHANGED <<freelist, log, lock, local, held, procVars>>

\* acquire(&kmem.lock)
KfreeAcquire(t) ==
  /\ pc[t] = "kfree_acquire" /\ lock = 0
  /\ lock' = t
  /\ pc' = [pc EXCEPT ![t] = "kfree_link"]
  /\ UNCHANGED <<mem, freelist, log, local, held, procVars>>

\* r->next = kmem.freelist
KfreeLink(t) ==
  /\ pc[t] = "kfree_link"
  /\ mem' = [mem EXCEPT ![local[t]] = SetWord(@, 0, freelist)]
  /\ pc' = [pc EXCEPT ![t] = "kfree_head"]
  /\ UNCHANGED <<freelist, log, lock, local, held, procVars>>

\* kmem.freelist = r
KfreeHead(t) ==
  /\ pc[t] = "kfree_head"
  /\ freelist' = local[t]
  /\ pc' = [pc EXCEPT ![t] = "kfree_release"]
  /\ UNCHANGED <<mem, log, lock, local, held, procVars>>

\* release(&kmem.lock)
KfreeRelease(t) ==
  /\ pc[t] = "kfree_release"
  /\ lock' = 0
  /\ pc' = [pc EXCEPT ![t] = "idle"]
  /\ local' = [local EXCEPT ![t] = 0]
  /\ UNCHANGED <<mem, freelist, log, held, procVars>>

\* kalloc(): acquire(&kmem.lock)
KallocAcquire(t) ==
  /\ pc[t] = "idle" /\ lock = 0
  /\ lock' = t
  /\ pc' = [pc EXCEPT ![t] = "kalloc_read"]
  /\ UNCHANGED <<mem, freelist, log, local, held, procVars>>

\* r = kmem.freelist
KallocRead(t) ==
  /\ pc[t] = "kalloc_read"
  /\ local' = [local EXCEPT ![t] = freelist]
  /\ pc' = [pc EXCEPT ![t] = "kalloc_unlink"]
  /\ UNCHANGED <<mem, freelist, log, lock, held, procVars>>

\* if(r) kmem.freelist = r->next
KallocUnlink(t) ==
  /\ pc[t] = "kalloc_unlink"
  /\ freelist' = IF local[t] # 0 THEN kallocNext(mem, local[t]) ELSE freelist
  /\ pc' = [pc EXCEPT ![t] = "kalloc_release"]
  /\ UNCHANGED <<mem, log, lock, local, held, procVars>>

\* release(&kmem.lock)
KallocRelease(t) ==
  /\ pc[t] = "kalloc_release"
  /\ lock' = 0
  /\ pc' = [pc EXCEPT ![t] = "kalloc_fill"]
  /\ UNCHANGED <<mem, freelist, log, local, held, procVars>>

\* if(r) memset(r, 5, PGSIZE); return r
KallocFill(t) ==
  /\ pc[t] = "kalloc_fill"
  /\ mem' = IF local[t] # 0 THEN [mem EXCEPT ![local[t]] = Filled(5)] ELSE mem
  /\ held' = [held EXCEPT ![t] = IF local[t] # 0 THEN @ \cup {local[t]} ELSE @]
  /\ local' = [local EXCEPT ![t] = 0]
  /\ pc' = [pc EXCEPT ![t] = "idle"]
  /\ UNCHANGED <<freelist, log, lock, procVars>>

NextAlloc ==
  \E t \in Threads :
    \/ \E pa \in Frames : KfreeCall(t, pa)
    \/ KfreeFill(t)
    \/ KfreeAcquire(t)
    \/ KfreeLink(t)
    \/ KfreeHead(t)
    \/ KfreeRelease(t)
    \/ KallocAcquire(t)
    \/ KallocRead(t)
    \/ KallocUnlink(t)
    \/ KallocRelease(t)
    \/ KallocFill(t)

SpecAlloc == InitAlloc /\ [][NextAlloc]_vars

\* The frames that are thread t's: those kalloc returned to it, the one its
\* kalloc has unlinked and not yet returned, the one its kfree has not yet
\* linked.
Owned(t) ==
  held[t]
    \cup (IF pc[t] \in {"kalloc_release", "kalloc_fill"} /\ local[t] # 0
          THEN {local[t]} ELSE {})
    \cup (IF pc[t] \in {"kfree_memset", "kfree_acquire", "kfree_link", "kfree_head"}
          THEN {local[t]} ELSE {})

(***************************************************************************)
(* C5.  However the threads' kalloc and kfree calls interleave: no frame   *)
(* is two threads' at once, no frame is on the free list and a thread's,   *)
(* no frame is on the free list twice, and the frames on the free list     *)
(* and the threads' frames are together as many as the frames the          *)
(* allocator was given.                                                    *)
(***************************************************************************)
AllocatorSafe ==
  /\ \A t1, t2 \in Threads : t1 # t2 => Owned(t1) \cap Owned(t2) = {}
  /\ \A t \in Threads : Owned(t) \cap FreeSet(M) = {}
  /\ Cardinality(FreeSet(M)) = Len(FreeList(M))
  /\ Len(FreeList(M)) + Cardinality(UNION {Owned(t) : t \in Threads}) = last.base

\* One thread is linking the frame it frees while another has unlinked a
\* frame and not yet returned.
AllocatorContended ==
  \E t1, t2 \in Threads :
    /\ pc[t1] = "kfree_link" /\ pc[t2] = "kalloc_fill"
    /\ local[t2] # 0 /\ local[t1] # local[t2]

PoolStarts == {end, end + 1, end + PGSIZE}

PoolStops ==
  {end, end + PGSIZE - 1, end + PGSIZE, end + PoolFrames * PGSIZE,
   end + PoolFrames * PGSIZE + PGSIZE - 1}

InitPool ==
  \E s \in PoolStarts, e \in PoolStops :
    /\ InitProc(freerange(PowerOn, s, e))
    /\ lock = 0
    /\ pc = <<>>
    /\ local = [start |-> s, stop |-> e, got |-> <<>>, fresh |-> TRUE]
    /\ held = {}

\* The call before this one, as the next call's record keeps it.
PrevCall ==
  [op |-> last.op, a |-> last.a, b |-> last.b, ret |-> last.ret,
   nfree |-> last.pre.nfree, ntabs |-> 0]

PoolDone(op, pa, m, r) ==
  /\ SetM(m)
  /\ last' = [Did(op, pa, 0, r) EXCEPT !.prev = PrevCall]
  /\ UNCHANGED <<kernel_pagetable, p_pagetable, p_sz, p_kpagetable, np_pagetable,
                 np_sz, nprocs, lock, pc>>

\* r = kalloc()
PoolAllocGot(k) ==
  /\ PoolDone("kalloc", 0, k.m, k.r)
  /\ held' = IF k.r # 0 THEN held \cup {k.r} ELSE held
  /\ local' = IF local.fresh /\ Len(local.got) < PoolFrames + 2
              THEN [local EXCEPT !.got = Append(@, k.r)]
              ELSE local

PoolAlloc == panicked = "" /\ PoolAllocGot(kalloc(M))

\* kfree(pa) of a frame kalloc returned
PoolFree(pa) ==
  /\ panicked = "" /\ pa \in held /\ Cardinality(held) <= MaxHeld
  /\ PoolDone("kfree", pa, kfree(M, pa), 0)
  /\ held' = held \ {pa}
  /\ local' = [local EXCEPT !.got = <<>>, !.fresh = FALSE]

NextPool ==
  \/ PoolAlloc
  \/ \E pa \in Frames : PoolFree(pa)

SpecPool == InitPool /\ [][NextPool]_vars

(***************************************************************************)
(* C11.  With a frame free, kalloc followed by kfree of the frame it       *)
(* returned leaves the free list as long as it was before the kalloc; and  *)
(* a kalloc that follows a kfree returns the frame that kfree was given.   *)
(***************************************************************************)
AllocFreeRestores ==
  /\ (/\ last.op = "kfree" /\ last.prev.op = "kalloc"
      /\ last.prev.ret # 0 /\ last.a = last.prev.ret)
       => Len(FreeList(M)) = last.prev.nfree
  /\ (last.op = "kalloc" /\ last.prev.op = "kfree")
       => last.ret = last.prev.a

\* A frame given back while the caller holds others and frames are free,
\* then taken again.
FreedThenAllocated ==
  /\ last.op = "kalloc" /\ last.prev.op = "kfree"
  /\ last.ret # 0
  /\ Cardinality(held) >= 2
  /\ Len(FreeList(M)) >= 2

(***************************************************************************)
(* C12.  After freerange over a range of RAM that holds N whole pages, the *)
(* first N kalloc calls (no kfree between) return N different page-aligned *)
(* addresses, each page inside the range, and the calls after them return  *)
(* 0.                                                                      *)
(***************************************************************************)
WholeFrames(s, e) ==
  IF e >= PGROUNDUP(s) THEN (e - PGROUNDUP(s)) \div PGSIZE ELSE 0

RangeGivesItsFrames ==
  local.fresh =>
    \A i \in 1 .. Len(local.got) :
      IF i <= WholeFrames(local.start, local.stop)
      THEN /\ local.got[i] # 0
           /\ local.got[i] % PGSIZE = 0
           /\ local.start <= local.got[i]
           /\ local.got[i] + PGSIZE <= local.stop
           /\ \A j \in 1 .. i - 1 : local.got[j] # local.got[i]
      ELSE local.got[i] = 0

\* The range of PoolFrames pages, all taken, and one call more.
RangeExhausted ==
  /\ local.fresh
  /\ WholeFrames(local.start, local.stop) = PoolFrames
  /\ Len(local.got) = PoolFrames + 1
  /\ local.got[PoolFrames] # 0
  /\ local.got[PoolFrames + 1] = 0

(***************************************************************************)
(* Ranges mapped and unmapped in a fresh page table: mappages over a range *)
(* (va and size page-aligned or not), then mappages again over a range     *)
(* that may overlap it, or uvmunmap of the pages just mapped.              *)
(***************************************************************************)
\* <<va, size>>: in one leaf table, across two, at the top of the address
\* space, of no byte.
RangeArgs ==
  {<<0, PGSIZE>>, <<0, 2 * PGSIZE>>, <<PGSIZE, PGSIZE>>, <<1, 1>>, <<1, PGSIZE>>,
   <<1, 0>>, <<(NPTE - 1) * PGSIZE, 2 * PGSIZE>>, <<NPTE * PGSIZE, PGSIZE>>,
   <<MAXVA - PGSIZE, PGSIZE>>, <<MAXVA - PGSIZE, 0>>}

\* Physical addresses: 0, a device, a frame that is free or a page table,
\* and frames kalloc gave out earlier (the one the second mappages maps too).
HeldFrame == end + (MaxFree + 1) * PGSIZE
OtherFrame == end + (MaxFree + 4) * PGSIZE
RangePas == {0, UART0, end + PGSIZE, HeldFrame}

RangePerms == {0, PTE_R, PTE_U, PTE_RWXU}

MapRangeDone(op, r, va, size, pa, perm) ==
  /\ SetM(r.m)
  /\ last' = [Did(op, va, size, r.r) EXCEPT
                !.c = [pa |-> pa, perm |-> perm, free |-> FALSE]]
  /\ UNCHANGED <<kernel_pagetable, p_pagetable, p_sz, p_kpagetable, np_pagetable,
                 np_sz, nprocs, allocVars>>

\* mappages(pagetable, va, size, pa, perm) on the page table just created
MapRange(va, size, pa, perm) ==
  /\ panicked = "" /\ p_pagetable # 0 /\ last.op = "uvmcreate"
  /\ MapRangeDone("mappages_range",
                  mappages(M, p_pagetable, va, size, pa, perm), va, size, pa, perm)

\* mappages(pagetable, va, size, OtherFrame, PTE_R | PTE_W) after the first
MapAgain(va, size) ==
  /\ panicked = "" /\ last.op = "mappages_range"
  /\ MapRangeDone("mappages_again",
                  mappages(M, p_pagetable, va, size, OtherFrame, PTE_RW),
                  va, size, OtherFrame, PTE_RW)

\* uvmunmap(pagetable, va, size / PGSIZE, do_free) of the range just mapped
UnmapRange(do_free) ==
  /\ panicked = "" /\ last.op = "mappages_range" /\ last.ret = 0
  /\ last.a % PGSIZE = 0 /\ last.b % PGSIZE = 0 /\ last.b > 0
  /\ SetM(uvmunmap(M, p_pagetable, last.a, last.b \div PGSIZE, do_free))
  /\ last' = [last EXCEPT !.op = "uvmunmap", !.pre = Snap,
                          !.c = [@ EXCEPT !.free = do_free]]
  /\ UNCHANGED <<kernel_pagetable, p_pagetable, p_sz, p_kpagetable, np_pagetable,
                 np_sz, nprocs, allocVars>>

NextRange ==
  \/ Create
  \/ \E vs \in RangeArgs, pa \in RangePas, perm \in RangePerms :
       MapRange(vs[1], vs[2], pa, perm)
  \/ \E vs \in RangeArgs : MapAgain(vs[1], vs[2])
  \/ \E do_free \in BOOLEAN : UnmapRange(do_free)

SpecRange == Init /\ [][NextRange]_vars

\* The pages that overlap [va, va + size): none when size is 0.
RangePages(va, size) ==
  IF size = 0 THEN {}
  ELSE {a \in {PGROUNDDOWN(va) + i * PGSIZE : i \in 0 .. (size \div PGSIZE) + 1} :
          a < va + size}

\* The level-0 entry of va in the process's page table, 0 where there is none.
EntryAt(va) == Load(M, walk(M, p_pagetable, va, FALSE).pte)

\* uvmunmap has left no page of the range mapped: walkaddr gives 0 for each
\* and each level-0 entry is 0.
RangeUnmapped ==
  /\ panicked = ""
  /\ \A a \in RangePages(last.a, last.b) :
       walkaddr(M, p_pagetable, a) = 0 /\ EntryAt(a) = 0

(***************************************************************************)
(* C13.  As the text has it: after mappages over a page-aligned range,     *)
(* with any permissions, uvmunmap over the same range, freeing the frames  *)
(* or not, leaves walkaddr 0 and the level-0 entry 0 for every page of the *)
(* range.                                                                  *)
(***************************************************************************)
UnmapUnmaps == last.op = "uvmunmap" => RangeUnmapped

\* C13, as the code has it: the same when the permissions are not empty (an
\* entry with PTE_V alone is a page-table pointer to uvmunmap, which panics)
\* and, where the frames are freed, when each is a frame of the allocator's
\* range (or kfree panics) that is no page table of this tree.
UnmapUnmapsLeaves ==
  (/\ last.op = "uvmunmap"
   /\ last.c.perm # 0
   /\ last.c.free =>
        \A a \in RangePages(last.a, last.b) :
          last.c.pa + (a - last.a) \in Frames \ last.pre.tabs)
    => RangeUnmapped

\* Two pages in two leaf tables, user pages on frames kalloc gave, unmapped
\* and freed.
UnmappedAndFreed ==
  /\ last.op = "uvmunmap" /\ last.c.free
  /\ last.a = (NPTE - 1) * PGSIZE /\ last.b = 2 * PGSIZE
  /\ last.c.pa = HeldFrame /\ last.c.perm = PTE_RWXU
  /\ Cardinality(last.pre.leaves) = 2
  /\ {HeldFrame, HeldFrame + PGSIZE} \subseteq FreeSet(M)

\* A page of the range of this mappages had a valid level-0 entry before.
MapsMappedPage ==
  /\ last.op = "mappages_again"
  /\ \E l \in last.pre.leaves : l[1] \in RangePages(last.a, last.b)

(***************************************************************************)
(* C14.  As the text has it: mappages over a range with a page whose       *)
(* level-0 entry is valid panics ("remap") and leaves that entry as it     *)
(* was.                                                                    *)
(***************************************************************************)
RemapPanics ==
  MapsMappedPage
    => panicked = "remap" /\ last.pre.leaves \subseteq Leaves(M, p_pagetable)

\* C14, as the code has it: it panics, or returns -1 when kalloc has no frame
\* for a table of a page that comes before the mapped one; the valid entry
\* is as it was either way.
RemapPanicsOrFails ==
  MapsMappedPage
    => /\ \/ panicked = "remap"
          \/ panicked = "" /\ last.ret = -1 /\ Exhausted(log)
       /\ last.pre.leaves \subseteq Leaves(M, p_pagetable)

\* The second mappages reached the mapped page after it had mapped another.
RemappedSecondPage ==
  /\ MapsMappedPage /\ panicked = "remap"
  /\ Cardinality(Leaves(M, p_pagetable)) > Cardinality(last.pre.leaves)

(***************************************************************************)
(* C18.  A mappages that returns -1 (walk, creating tables, found kalloc   *)
(* out of frames) leaves every table walk installed in the call in the     *)
(* tree, pointed at by a valid entry without R, W or X, and off the free   *)
(* list: the tree keeps the tables it had and those.                       *)
(***************************************************************************)
WalkFailureKeepsTables ==
  (/\ last.op \in {"mappages_range", "mappages_again"}
   /\ last.ret = -1 /\ panicked = "")
    => /\ Exhausted(log)
       /\ last.pre.tabs \subseteq TableFrames(M, p_pagetable)
       /\ \A f \in Allocated(log) :
            /\ f \in TableFrames(M, p_pagetable) \ last.pre.tabs
            /\ f \notin FreeSet(M)
            /\ \E e \in AllEntries(M, p_pagetable) :
                 PTE2PA(e) = f /\ PTE_FLAGS(e) = PTE_V

\* walk installed the level-1 table and found no frame for the level-0 table.
WalkFailedAtLeafTable ==
  /\ last.op = "mappages_range" /\ last.ret = -1 /\ panicked = ""
  /\ Cardinality(Allocated(log)) = 1
  /\ Cardinality(TableFrames(M, p_pagetable)) = Cardinality(last.pre.tabs) + 1
  /\ Leaves(M, p_pagetable) = {}

(***************************************************************************)
(* C19.  As the text has it: a mappages that returns 0, over a range below *)
(* MAXVA none of whose pages was mapped, leaves as valid level-0 entries   *)
(* those there were and, for the k-th page that overlaps [va, va + size),  *)
(* one to pa + k * PGSIZE with flags perm | PTE_V: none when size is 0.    *)
(***************************************************************************)
MapInstallsRange ==
  (/\ last.op \in {"mappages_range", "mappages_again"}
   /\ last.ret = 0 /\ panicked = ""
   /\ last.a + last.b < MAXVA
   /\ \A l \in last.pre.leaves : l[1] \notin RangePages(last.a, last.b))
    => Leaves(M, p_pagetable) =
         last.pre.leaves \cup
           {<<a, BitOr(BitOr(PA2PTE(last.c.pa + (a - PGROUNDDOWN(last.a))),
                             last.c.perm), PTE_V)>> :
              a \in RangePages(last.a, last.b)}

(***************************************************************************)
(* Copies to and from a process's memory: the process grows to one or two  *)
(* pages (on frames that are not adjacent), exec's uvmclear takes PTE_U    *)
(* from some, then one copyout writes units and one copyinstr reads them.  *)
(***************************************************************************)
CopyOps == {"copyout_range", "copyinstr"}

CopyVas == {0, PGSIZE - 1, PGSIZE + 1, MaxPages * PGSIZE - 1}

CopySrcs == {<<7>>, <<7, 8>>, <<7, 0, 9>>}

CopyMaxes == {0, 1, 2, 3, PGSIZE + 2}

InitCopy == InitWith(BootWith(2 * MaxFree))

\* copyout(p->pagetable, dstva, src, len)
CopyOut(dstva, src) ==
  /\ panicked = "" /\ p_pagetable # 0 /\ last.op \notin CopyOps
  /\ LET r == copyout(M, p_pagetable, dstva, src, Len(src)) IN
     /\ SetM(r.m)
     /\ last' = [Did("copyout_range", dstva, Len(src), r.r) EXCEPT
                   !.c = [src |-> src, mem |-> mem]]
  /\ UNCHANGED <<kernel_pagetable, p_pagetable, p_sz, p_kpagetable, np_pagetable,
                 np_sz, nprocs, allocVars>>

\* copyinstr(p->pagetable, dst, srcva, max)
CopyInStr(srcva, max) ==
  /\ panicked = "" /\ last.op = "copyout_range"
  /\ LET r == copyinstr(M, p_pagetable, srcva, max) IN
       last' = [Did("copyinstr", srcva, max, r.r) EXCEPT !.c = r.dst]
  /\ UNCHANGED <<mem, freelist, panicked, log, kernel_pagetable, p_pagetable, p_sz,
                 p_kpagetable, np_pagetable, np_sz, nprocs, allocVars>>

\* growproc and exec's uvmclear, before the copies
GrowFirst(n) == last.op \notin CopyOps /\ Grow(n)

GuardFirst(va) == last.op \notin CopyOps /\ Guard(va)

NextCopy ==
  \/ Create
  \/ \E n \in ForkSizes : GrowFirst(n)
  \/ \E va \in PageVas : GuardFirst(va)
  \/ \E va \in CopyVas, src \in CopySrcs : CopyOut(va, src)
  \/ \E va \in CopyVas, max \in CopyMaxes : CopyInStr(va, max)

SpecCopy == InitCopy /\ [][NextCopy]_vars

\* The frame of the page of va if a valid level-0 entry with PTE_U maps it,
\* else 0; and the unit of memory at va.
UserFrame(va) == walkaddr(M, p_pagetable, PGROUNDDOWN(va))

UnitAt(va) == Load(M, PteAddr(UserFrame(va), WordOf(va - PGROUNDDOWN(va))))

(***************************************************************************)
(* C15.  copyout(pagetable, dstva, src, len) returns -1 if a page that     *)
(* overlaps [dstva, dstva + len) has no valid level-0 entry with PTE_U,    *)
(* and 0 if each has one; then unit i of src is at the translation of      *)
(* dstva + i, across pages on frames that are not adjacent.  Whatever it   *)
(* returns, the frames it has changed are mapped with PTE_U.               *)
(***************************************************************************)
CopyoutChecksPages ==
  last.op = "copyout_range"
    => /\ (\E a \in RangePages(last.a, last.b) : UserFrame(a) = 0)
            => last.ret = -1
       /\ (\A a \in RangePages(last.a, last.b) : UserFrame(a) # 0)
            => /\ last.ret = 0
               /\ \A i \in 1 .. last.b : UnitAt(last.a + i - 1) = last.c.src[i]
       /\ \A f \in Frames :
            mem[f] # last.c.mem[f]
              => \E l \in Leaves(M, p_pagetable) :
                   PTE2PA(l[2]) = f /\ HasFlag(l[2], PTE_U)
       /\ panicked = ""

\* Three units written across the page boundary onto frames that are not
\* adjacent.
CopiedAcrossPages ==
  /\ last.op = "copyout_range" /\ last.ret = 0
  /\ last.a = PGSIZE - 1 /\ last.b = 3
  /\ UserFrame(PGSIZE) # UserFrame(0) + PGSIZE
  /\ UnitAt(PGSIZE + 1) = 9

\* The first i for which unit srcva + i is 0, the pages up to it being the
\* user's: max if there is none among the first max units.
RECURSIVE TerminatorFrom(_, _, _)
TerminatorFrom(srcva, i, max) ==
  IF i >= max \/ UserFrame(srcva + i) = 0 THEN max
  ELSE IF UnitAt(srcva + i) = 0 THEN i
  ELSE TerminatorFrom(srcva, i + 1, max)

(***************************************************************************)
(* C16.  copyinstr(pagetable, dst, srcva, max) returns 0 exactly when one  *)
(* of the first max units from srcva is 0 and every page up to the first   *)
(* such unit has a valid level-0 entry with PTE_U; dst then holds the      *)
(* units up to that 0, the 0 included.  Else it returns -1.                *)
(***************************************************************************)
CopyinstrFindsTerminator ==
  last.op = "copyinstr"
    => IF TerminatorFrom(last.a, 0, last.b) < last.b
       THEN /\ last.ret = 0
            /\ last.c = [i \in 1 .. TerminatorFrom(last.a, 0, last.b) + 1 |->
                           UnitAt(last.a + i - 1)]
       ELSE last.ret = -1

\* A string of two units and its terminator read; and max units read without
\* a terminator.
StringRead ==
  /\ last.op = "copyinstr" /\ last.ret = 0
  /\ last.c = <<7, 8, 0>>

(***************************************************************************)
(* Two processes beside the kernel.  The process that runs is the one of   *)
(* the p_ variables; the process that waits is kept in local, with what    *)
(* the tables of its own shadow held when it stopped running.              *)
(***************************************************************************)

\* The tables of the shadow kpt that the kernel's page table does not reach.
OwnTables(m, kpt) == TableFrames(m, kpt) \ TableFrames(m, kernel_pagetable)

NoProc == [pagetable |-> 0, kpagetable |-> 0, sz |-> 0, tabs |-> [t \in {} |-> 0]]

InitShadows ==
  /\ InitProc(BootWith(Len(FreeList(Boot.m))))
  /\ lock = 0
  /\ pc = <<>>
  /\ local = NoProc
  /\ held = <<>>

\* The running process stops and the waiting one runs.
Switch ==
  /\ panicked = ""
  /\ p_kpagetable # 0 \/ local.kpagetable # 0
  /\ p_pagetable' = local.pagetable
  /\ p_kpagetable' = local.kpagetable
  /\ p_sz' = local.sz
  /\ local' = [pagetable |-> p_pagetable, kpagetable |-> p_kpagetable, sz |-> p_sz,
               tabs |-> [t \in OwnTables(M, p_kpagetable) |-> mem[t]]]
  /\ last' = Did("switch", 0, 0, 0)
  /\ UNCHANGED <<mem, freelist, panicked, log, kernel_pagetable, np_pagetable,
                 np_sz, nprocs, lock, pc, held>>

\* allocproc for the second process, while the first one waits.
AllocSecond ==
  /\ panicked = "" /\ p_pagetable = 0 /\ local.kpagetable # 0
  /\ nprocs < MaxProcs + 1
  /\ AllocProcWith(uvmcreate(M))
  /\ nprocs' = nprocs + 1
  /\ UNCHANGED <<kernel_pagetable, np_pagetable, np_sz, allocVars>>

\* The sizes the two processes take: whole pages.
WholeSizes == {pg * PGSIZE : pg \in 0 .. MaxPages}

NextShadows ==
  \/ AllocProc
  \/ AllocSecond
  \/ \E n \in WholeSizes : GrowProc(n)
  \/ \E n \in WholeSizes : ShrinkProc(n)
  \/ Switch

SpecShadows == InitShadows /\ [][NextShadows]_vars

InitTear ==
  \E k \in 0 .. MaxFree :
    InitWith(memset(memset(BootWith(k), HeldFrame, 0), HeldFrame + PGSIZE, 0))

\* The entries freewalk takes for pointers to lower tables.
PointerIdx(c) ==
  {j \in NonZero(c) : HasFlag(Word(c, j), PTE_V) /\ BitAnd(Word(c, j), PTE_RWX) = 0}

\* The largest of the depths S, 0 when there is none.
Deepest(S) == IF S = {} THEN 0 ELSE CHOOSE d \in S : \A e \in S : e <= d

\* How many calls of freewalk are open at once, at most, when freewalk runs
\* on pagetable: one, and those of the lower tables its entries point at.
RECURSIVE freewalkDepth(_, _, _)
freewalkDepth(m, pagetable, fuel) ==
  IF fuel = 0 \/ pagetable \notin Frames THEN 1
  ELSE 1 + Deepest({freewalkDepth(m, PTE2PA(Word(m.mem[pagetable], j)), fuel - 1) :
                      j \in PointerIdx(m.mem[pagetable])})

\* A level-0 entry that freewalk takes for a table pointer leads back into
\* the tree: freewalk would not return.
LeadsBack(m, root) ==
  \E l \in Leaves(m, root) :
    BitAnd(l[2], PTE_RWX) = 0 /\ PTE2PA(l[2]) \in TableFrames(m, root)

\* freewalk(pagetable), whatever was mapped and unmapped before
FreeWalk ==
  /\ panicked = "" /\ p_pagetable # 0
  /\ last.op \in {"uvmcreate", "mappages_range", "uvmunmap"}
  /\ ~LeadsBack(M, p_pagetable)
  /\ SetM(freewalk(M, p_pagetable))
  /\ p_pagetable' = 0
  /\ last' = [last EXCEPT
                !.op = "freewalk", !.pre = Snap, !.prev = PrevCall,
                !.c = [depth |-> freewalkDepth(M, p_pagetable, 5),
                       whole |-> TableFrames(M, p_pagetable) \cap FreeSet(M) = {}]]
  /\ UNCHANGED <<kernel_pagetable, p_sz, p_kpagetable, np_pagetable, np_sz, nprocs,
                 allocVars>>

NextTear ==
  \/ Create
  \/ \E vs \in RangeArgs, pa \in RangePas, perm \in RangePerms :
       MapRange(vs[1], vs[2], pa, perm)
  \/ \E do_free \in BOOLEAN : UnmapRange(do_free)
  \/ FreeWalk

SpecTear == InitTear /\ [][NextTear]_vars

\* freewalk gave the allocator the tables of the tree, each once, and nothing
\* else, and returned.
TablesReturned ==
  /\ panicked = ""
  /\ Freed(log) = last.pre.tabs
  /\ Len(KfreeLog) = Cardinality(last.pre.tabs)
  /\ Allocated(log) = {}
  /\ last.c.depth <= 3

\* The frames the valid level-0 entries of the tree pointed at.
LeafFrames == {PTE2PA(l[2]) : l \in last.pre.leaves}

\* freewalk stopped with a fatal error and freed no frame a leaf pointed at.
LeafStopped ==
  /\ panicked # ""
  /\ Freed(log) \cap (LeafFrames \ last.pre.tabs) = {}

(***************************************************************************)
(* C21.  As the text has it: freewalk on a tree without a valid level-0    *)
(* entry frees exactly the tables of the tree, each once, never more than  *)
(* three calls deep; on a tree with a valid level-0 entry it ends in a     *)
(* panic and does not free the frame the entry points at.                  *)
(***************************************************************************)
FreewalkFreesTables ==
  last.op = "freewalk"
    => IF last.pre.leaves = {} THEN TablesReturned ELSE LeafStopped

\* C21, as the code has it: the first half when no uvmunmap has freed a
\* table of the tree itself; the second half, with the panic "freewalk: leaf",
\* when every valid level-0 entry has one of PTE_R, PTE_W, PTE_X (an entry
\* with none of them is a pointer to a lower table to freewalk, which walks
\* the frame it points at, a fourth call deep, and frees it).
FreewalkFreesWholeTables ==
  last.op = "freewalk"
    => /\ (last.pre.leaves = {} /\ last.c.whole) => TablesReturned
       /\ (last.pre.leaves # {}
            /\ \A l \in last.pre.leaves : BitAnd(l[2], PTE_RWX) # 0)
            => LeafStopped /\ panicked = "freewalk: leaf"

\* freewalk after two pages in two leaf tables were mapped and unmapped: four
\* tables freed.
ToreDownFourTables ==
  /\ last.op = "freewalk" /\ last.prev.op = "uvmunmap"
  /\ panicked = ""
  /\ Cardinality(last.pre.tabs) = 4
  /\ last.c.depth = 3

(***************************************************************************)
(* Processes whose size is near the devices.  growproc's calls touch the   *)
(* pages between the old and the new size only, so a process that has      *)
(* reached a size is taken up there: the pages below, thousands of them,   *)
(* are not built.  local keeps the size the process was taken up at.       *)
(***************************************************************************)
InitDevice ==
  /\ \E k \in MaxFree + 2 .. 2 * MaxFree + 2 : InitProc(BootWith(k))
  /\ lock = 0
  /\ pc = <<>>
  /\ local = [base |-> 0]
  /\ held = <<>>

\* The sizes the process is taken up at, and those it grows and shrinks to.
DeviceBases == {0, CLINT - PGSIZE, CLINT, CLINT + 15 * PGSIZE, PLIC - 2 * PGSIZE}
DeviceSizes ==
  {0, PGSIZE, 2 * PGSIZE, CLINT - PGSIZE, CLINT, CLINT + PGSIZE, CLINT + 2 * PGSIZE,
   CLINT + 16 * PGSIZE, PLIC - 2 * PGSIZE, PLIC - PGSIZE, PLIC}

\* The process has grown to sz before.
StartAt(sz) ==
  /\ panicked = "" /\ p_kpagetable # 0 /\ last.op = "allocproc"
  /\ p_sz' = sz
  /\ local' = [base |-> sz]
  /\ last' = Did("sz", 0, sz, 0)
  /\ UNCHANGED <<mem, freelist, panicked, log, kernel_pagetable, p_pagetable,
                 p_kpagetable, np_pagetable, np_sz, nprocs, lock, pc, held>>

\* growproc, n > 0, by at most two pages
GrowDevice(newsz) ==
  /\ last.op # "allocproc"
  /\ newsz <= p_sz + MaxPages * PGSIZE
  /\ GrowProc(newsz)

\* growproc, n < 0, down to a size the process was not taken up above
ShrinkDevice(newsz) ==
  /\ last.op # "allocproc"
  /\ newsz >= local.base
  /\ ShrinkProc(newsz)

NextDevice ==
  \/ AllocProc
  \/ \E sz \in DeviceBases : StartAt(sz)
  \/ \E n \in DeviceSizes : GrowDevice(n)
  \/ \E n \in DeviceSizes : ShrinkDevice(n)

SpecDevice == InitDevice /\ [][NextDevice]_vars

\* The level-0 entry of va in the table kpt, 0 where there is none.
EntryIn(kpt, va) == Load(M, walk(M, kpt, va, FALSE).pte)

\* The entry uvmmap(kernelpt, va, va, sz, PTE_R | PTE_W) installs for va.
DeviceEntry(va) == BitOr(PA2PTE(va), BitOr(PTE_RW, PTE_V))

\* Device pages proc_kpt_init maps: UART0, VIRTIO0, the sixteen pages of
\* CLINT, the first and the last page of PLIC.
DevicePages ==
  {UART0, VIRTIO0, PLIC, PLIC + 1023 * PGSIZE}
    \cup {CLINT + i * PGSIZE : i \in 0 .. 15}

\* Kernel pages: the first of the text, the first of the data, TRAMPOLINE.
KernelPages == {KERNBASE, etext, TRAMPOLINE}

(***************************************************************************)
(* C22.  As the text has it: whatever sizes setup_uvmkvm has accepted,     *)
(* each device page still has, in the process's kernel page table, the     *)
(* entry proc_kpt_init installed, and each kernel page the entry of the    *)
(* kernel's own page table.                                                *)
(***************************************************************************)
DeviceEntriesKept ==
  (panicked = "" /\ p_kpagetable # 0)
    => /\ \A va \in DevicePages : EntryIn(p_kpagetable, va) = DeviceEntry(va)
       /\ \A va \in KernelPages :
            /\ EntryIn(p_kpagetable, va) = EntryIn(kernel_pagetable, va)
            /\ HasFlag(EntryIn(p_kpagetable, va), PTE_V)
====
